---- MODULE Spec2Model ----
(***************************************************************************)
(* Mark resolution and dual-backend rendering of apple/embedding-atlas     *)
(* (packages/viewer/src/charts/spec): layer_helper.ts, Layer.svelte and    *)
(* LayerCanvas.svelte; and, each under a specification of its own,         *)
(* sortItems (charts/basic/sortItems.ts), base64Encode and base64Decode    *)
(* (packages/utils/src/compression.ts), latestAsync and                    *)
(* ReconnectingWebSocket.                                                  *)
(*                                                                         *)
(* Numbers.  A JavaScript number is a record [k, v]: a finite value        *)
(* (k = "fin", v an integer count of quarter pixels), NaN, +Infinity or    *)
(* -Infinity, with the IEEE rules for the non-finite values.  Scales map   *)
(* data to whole pixels and the dimensions are whole pixels with ratios    *)
(* in halves, so every halving and every ratio product of the code is      *)
(* exact in quarter pixels; rounding of binary floating point is not       *)
(* modelled.  A null data cell is [k |-> "null"].                          *)
(***************************************************************************)
EXTENDS Integers, Sequences, FiniteSets, TLC

VARIABLES bandIn, bandOut, bandPc, lineIn, lineGroups, linePaths, linePc, warnings,
          props, hasContext, svgDirty, canvasDirty, svgPc, svgIter, frag, container,
          surface, lastCalls, lastPass, lastResolved, renders,
          styleIn, styleOut, stylePc,
          sortIn, sortArray, sortOut, sortPc,
          b64Bytes, b64Text, b64Decoded, b64Pc,
          latestId, promises, onResultCalls, consoleErrors,
          rws

bandVars == <<bandIn, bandOut, bandPc>>
lineVars == <<lineIn, lineGroups, linePaths, linePc, warnings>>
svgVars == <<svgDirty, svgPc, svgIter, frag, container>>
canvasVars == <<canvasDirty, surface, lastCalls, lastPass, lastResolved>>
renderVars == <<props, hasContext, renders, svgVars, canvasVars>>
styleVars == <<styleIn, styleOut, stylePc>>
sortVars == <<sortIn, sortArray, sortOut, sortPc>>
b64Vars == <<b64Bytes, b64Text, b64Decoded, b64Pc>>
asyncVars == <<latestId, promises, onResultCalls, consoleErrors>>
utilVars == <<sortVars, b64Vars, asyncVars, rws>>
vars == <<bandVars, lineVars, renderVars, styleVars, utilVars>>

(***************************************************************************)
(* Bounds of the model.                                                    *)
(***************************************************************************)
MaxBandRows == 1
MaxRows == 2
MaxGroupRows == 3
MaxDrawRows == 2
MaxRenders == 2
MaxStyleRows == 2
MaxItems == 3
MaxBytes == 4
MaxCalls == 3
MaxSockets == 3
MaxReconnectAttempts == 2

(***************************************************************************)
(* JavaScript numbers.                                                     *)
(***************************************************************************)
F(n) == [k |-> "fin", v |-> n]
NaN == [k |-> "nan", v |-> 0]
PosInf == [k |-> "inf", v |-> 1]
NegInf == [k |-> "inf", v |-> -1]
Null == [k |-> "null", v |-> 0]

isFinite(a) == a.k = "fin"

NNeg(a) == IF a.k = "nan" THEN NaN ELSE [k |-> a.k, v |-> 0 - a.v]

NAdd(a, b) ==
  IF a.k = "nan" \/ b.k = "nan" THEN NaN
  ELSE IF a.k = "fin" /\ b.k = "fin" THEN F(a.v + b.v)
  ELSE IF a.k = "fin" THEN b
  ELSE IF b.k = "fin" THEN a
  ELSE IF a.v = b.v THEN a ELSE NaN

NSub(a, b) == NAdd(a, NNeg(b))

\* a * (p / q) for a finite rational p / q with q > 0.
NScale(a, p, q) ==
  IF a.k = "nan" THEN NaN
  ELSE IF a.k = "fin" THEN F((a.v * p) \div q)
  ELSE IF p = 0 THEN NaN
  ELSE IF p > 0 THEN a ELSE NNeg(a)

NLt(a, b) ==
  IF a.k = "nan" \/ b.k = "nan" THEN FALSE
  ELSE IF a.k = "fin" /\ b.k = "fin" THEN a.v < b.v
  ELSE IF a.k = "inf" /\ b.k = "inf" THEN a.v < b.v
  ELSE IF a.k = "inf" THEN a.v < 0
  ELSE b.v > 0

NAbs(a) == IF a.k = "nan" THEN NaN ELSE [k |-> a.k, v |-> IF a.v < 0 THEN 0 - a.v ELSE a.v]

NMin(a, b) ==
  IF a.k = "nan" \/ b.k = "nan" THEN NaN
  ELSE IF NLt(b, a) THEN b ELSE a

(***************************************************************************)
(* The scale of a channel (XYFrameProxy.scale[channel]): "linear" maps a   *)
(* data value to 2 px per unit, "reversed" runs the other way (a y axis);  *)
(* a null or NaN datum has no position.  applyBand gives the band of 2 px  *)
(* around the position, in the direction of the scale.                     *)
(***************************************************************************)
ScaleKinds == {"linear", "reversed"}

ScaleApply(kind, c) ==
  IF c.k = "null" \/ c.k = "nan" THEN NaN
  ELSE IF c.k = "inf" THEN (IF kind = "linear" THEN c ELSE NNeg(c))
  ELSE IF kind = "linear" THEN F(8 * c.v) ELSE F(32 - 8 * c.v)

ScaleApplyBand(kind, c) ==
  IF kind = "linear"
  THEN <<NSub(ScaleApply(kind, c), F(4)), NAdd(ScaleApply(kind, c), F(4))>>
  ELSE <<NAdd(ScaleApply(kind, c), F(4)), NSub(ScaleApply(kind, c), F(4))>>

HasScale(proxy, channel) == proxy.scale[channel] # "none"

HasColumn(data, c) == c \in DOMAIN data.columns

(***************************************************************************)
(* Mapped<T>: { length, at(i) } is the sequence of its values,             *)
(* at(i) = m[i + 1]; mapped(column, mapper) is written in place as         *)
(* [i \in 1..Len(column) |-> mapper(column[i])].                           *)
(***************************************************************************)

constant(length, value) == [i \in 1..length |-> value]

(***************************************************************************)
(* Dimension: [kind, a, b].  "none": no dimension; "number": a is the      *)
(* width; "gap": a is the gap, b is clampToRatio in halves (-1: absent);   *)
(* "ratio": b is the ratio in halves; "other": an object with neither      *)
(* gap nor ratio.                                                          *)
(***************************************************************************)
NoDimension == [kind |-> "none", a |-> 0, b |-> 0]

HasModifier(dimension) == dimension.kind \in {"number", "gap", "ratio"}

\* The bug of taking the whole dimension where the code takes half of it.
NumberModifierWhole(d, v) ==
  <<NSub(NScale(NAdd(v[1], v[2]), 1, 2), F(d)), NAdd(NScale(NAdd(v[1], v[2]), 1, 2), F(d))>>

\* typeof dimension == "number": [(v1 + v2) / 2 - dv, (v1 + v2) / 2 + dv], dv = dimension / 2.
NumberModifier(d, v) ==
  LET dv == F(d \div 2)
  IN  <<NSub(NScale(NAdd(v[1], v[2]), 1, 2), dv), NAdd(NScale(NAdd(v[1], v[2]), 1, 2), dv)>>

\* The bug of shrinking by the gap without the clamp.
GapModifierNoClamp(gap, ratio2, v) ==
  LET dv == F(gap \div 2)
  IN  IF NLt(v[1], v[2]) THEN <<NAdd(v[1], dv), NSub(v[2], dv)>>
      ELSE <<NSub(v[1], dv), NAdd(v[2], dv)>>

\* "gap" in dimension: dv = Math.min(gap / 2, ((clampToRatio ?? 0) * Math.abs(v1 - v2)) / 2);
\* ratio2 is clampToRatio in halves, -1 when it is absent.
GapModifier(gap, ratio2, v) ==
  LET clampToRatio2 == IF ratio2 < 0 THEN 0 ELSE ratio2
      dv == NMin(F(gap \div 2), NScale(NAbs(NSub(v[1], v[2])), clampToRatio2, 4))
  IN  IF NLt(v[1], v[2]) THEN <<NAdd(v[1], dv), NSub(v[2], dv)>>
      ELSE <<NSub(v[1], dv), NAdd(v[2], dv)>>

\* The bug of taking s = (1 + ratio) / 2, which turns the interval round.
RatioModifierTurned(ratio2, v) ==
  <<NAdd(v[1], NScale(NSub(v[2], v[1]), 2 + ratio2, 4)),
    NAdd(v[2], NScale(NSub(v[1], v[2]), 2 + ratio2, 4))>>

\* "ratio" in dimension: s = (1 - ratio) / 2; ratio2 is the ratio in halves.
RatioModifier(ratio2, v) ==
  <<NAdd(v[1], NScale(NSub(v[2], v[1]), 2 - ratio2, 4)),
    NAdd(v[2], NScale(NSub(v[1], v[2]), 2 - ratio2, 4))>>

DimensionModifier(dimension, v) ==
  IF dimension.kind = "number" THEN NumberModifier(dimension.a, v)
  ELSE IF dimension.kind = "gap" THEN GapModifier(dimension.a, dimension.b, v)
  ELSE IF dimension.kind = "ratio" THEN RatioModifier(dimension.b, v)
  ELSE v

Axis1(axis) == IF axis = "x" THEN "x1" ELSE "y1"
Axis2(axis) == IF axis = "x" THEN "x2" ELSE "y2"

PlotExtent(proxy, axis) == IF axis = "x" THEN proxy.plotWidth ELSE proxy.plotHeight

\* The interval of one row before the dimension modifier, in cases 1 and 2.
RawBand(kind, cell) == ScaleApplyBand(kind, cell)
RawPair(kind, c1, c2) == <<ScaleApply(kind, c1), ScaleApply(kind, c2)>>

\* The bug of looking for the pair of columns before the single column.
resolveBandPairFirst(rctx, axis, dimension) ==
  LET proxy == rctx.proxy
      data == rctx.data
      kind == proxy.scale[axis]
  IN  IF HasColumn(data, Axis1(axis)) /\ HasColumn(data, Axis2(axis)) /\ HasScale(proxy, axis)
      THEN [i \in 1..Len(data.columns[Axis1(axis)]) |->
              DimensionModifier(dimension, RawPair(kind, data.columns[Axis1(axis)][i],
                                                   data.columns[Axis2(axis)][i]))]
      ELSE IF HasColumn(data, axis) /\ HasScale(proxy, axis)
      THEN [i \in 1..Len(data.columns[axis]) |->
              DimensionModifier(dimension, RawBand(kind, data.columns[axis][i]))]
      ELSE constant(data.length, <<F(0), F(PlotExtent(proxy, axis))>>)

resolveBand(rctx, axis, dimension) ==
  LET proxy == rctx.proxy
      data == rctx.data
      kind == proxy.scale[axis]
  IN  IF HasColumn(data, axis) /\ HasScale(proxy, axis)
      THEN IF HasModifier(dimension)
           THEN [i \in 1..Len(data.columns[axis]) |->
                   DimensionModifier(dimension, RawBand(kind, data.columns[axis][i]))]
           ELSE [i \in 1..Len(data.columns[axis]) |-> RawBand(kind, data.columns[axis][i])]
      ELSE IF HasColumn(data, Axis1(axis)) /\ HasColumn(data, Axis2(axis)) /\ HasScale(proxy, axis)
      THEN LET c1 == data.columns[Axis1(axis)]
               c2 == data.columns[Axis2(axis)]
           IN  IF HasModifier(dimension)
               THEN [i \in 1..Len(c1) |-> DimensionModifier(dimension, RawPair(kind, c1[i], c2[i]))]
               ELSE [i \in 1..Len(c1) |-> RawPair(kind, c1[i], c2[i])]
      ELSE constant(data.length, <<F(0), F(PlotExtent(proxy, axis))>>)

(***************************************************************************)
(* Inputs of the band resolver.                                            *)
(***************************************************************************)
PositionCells == {F(0), F(1), NaN}

Dimensions ==
  {NoDimension, [kind |-> "other", a |-> 0, b |-> 0]}
  \cup {[kind |-> "number", a |-> d, b |-> 0] : d \in {8, 40}}
  \cup {[kind |-> "gap", a |-> g, b |-> r] : g \in {4, 24}, r \in {-1, 1, 2}}
  \cup {[kind |-> "ratio", a |-> 0, b |-> q] : q \in {-1, 0, 1, 2, 3}}

Proxies(xs, ys) ==
  {[plotWidth |-> 64, plotHeight |-> 48,
    scale |-> [x |-> sx, y |-> sy, color |-> "none", size |-> "none"]] :
      sx \in xs, sy \in ys}

DefaultTheme == [markColor |-> "#mark", ruleColor |-> "#888"]

BandSchemas(axis) == SUBSET {axis, Axis1(axis), Axis2(axis)}

IdleBand == bandIn = <<>> /\ bandOut = <<>> /\ bandPc = "off"
IdleStyle == styleIn = <<>> /\ styleOut = <<>> /\ stylePc = "off"
IdleLine ==
  lineIn = <<>> /\ lineGroups = <<>> /\ linePaths = <<>> /\ linePc = "off" /\ warnings = <<>>
IdleSort == sortIn = <<>> /\ sortArray = <<>> /\ sortOut = <<>> /\ sortPc = "off"
IdleBase64 == b64Bytes = <<>> /\ b64Text = <<>> /\ b64Decoded = [threw |-> FALSE, value |-> <<>>] /\ b64Pc = "off"
IdleAsync == latestId = 0 /\ promises = <<>> /\ onResultCalls = <<>> /\ consoleErrors = <<>>
IdleSocket == rws = <<>>
IdleUtil == IdleSort /\ IdleBase64 /\ IdleAsync /\ IdleSocket
IdleRender ==
  /\ props = <<>> /\ hasContext = FALSE /\ renders = 0
  /\ svgDirty = FALSE /\ svgPc = "off" /\ svgIter = 0 /\ frag = <<>> /\ container = <<>>
  /\ canvasDirty = FALSE /\ surface = <<>> /\ lastCalls = <<>> /\ lastPass = "none"
  /\ lastResolved = <<>>

InitBand ==
  /\ \E axis \in {"x", "y"}, d \in Dimensions, n \in 0..MaxBandRows :
       \E p \in Proxies(IF axis = "x" THEN ScaleKinds \cup {"none"} ELSE {"none"},
                         IF axis = "y" THEN ScaleKinds \cup {"none"} ELSE {"none"}),
          s \in BandSchemas(axis) :
         \E c \in [s -> [1..n -> PositionCells]] :
           bandIn = [rctx |-> [proxy |-> p, data |-> [length |-> n, columns |-> c],
                               theme |-> DefaultTheme],
                     axis |-> axis, dimension |-> d]
  /\ bandOut = <<>>
  /\ bandPc = "call"
  /\ IdleLine /\ IdleRender /\ IdleStyle /\ IdleUtil

\* resolveBand(rctx, axis, dimension), materialised over every row.
ResolveBandCall ==
  /\ bandPc = "call"
  /\ bandOut' = resolveBand(bandIn.rctx, bandIn.axis, bandIn.dimension)
  /\ bandPc' = "done"
  /\ UNCHANGED <<bandIn, lineVars, renderVars, styleVars, utilVars>>

NextBand == ResolveBandCall

SpecBand == InitBand /\ [][NextBand]_vars

(***************************************************************************)
(* resolvePoint, lineData, linePath and areaPath.  Row indices are the     *)
(* code's, from 0: at(m, i) is m.at(i).                                    *)
(***************************************************************************)
at(m, i) == m[i + 1]

resolvePoint(rctx, axis) ==
  IF HasColumn(rctx.data, axis) /\ HasScale(rctx.proxy, axis)
  THEN [i \in 1..Len(rctx.data.columns[axis]) |->
          ScaleApply(rctx.proxy.scale[axis], rctx.data.columns[axis][i])]
  ELSE constant(rctx.data.length, F(PlotExtent(rctx.proxy, axis) \div 2))

\* Object.keys(data.columns), in the order the columns were set.
ColumnOrder == <<"x", "y", "x1", "x2", "y1", "y2", "color", "size">>

IsGroupKey(k) == k # "x" /\ k # "y"

groupBy(data) ==
  LET present(k) == HasColumn(data, k) /\ IsGroupKey(k)
  IN  SelectSeq(ColumnOrder, present)

\* JSON.stringify of one cell: NaN, the infinities and null all print as null.
JsonCell(c) ==
  IF c.k = "fin" THEN ToString(c.v)
  ELSE IF c.k = "str" THEN "\"c" \o ToString(c.v) \o "\""
  ELSE "null"

RECURSIVE JsonJoin(_, _, _)
JsonJoin(data, keys, row) ==
  IF keys = <<>> THEN ""
  ELSE JsonCell(data.columns[Head(keys)][row + 1])
       \o (IF Len(keys) > 1 THEN "," ELSE "")
       \o JsonJoin(data, Tail(keys), row)

\* The bug of making the key from the first grouping column alone.
RowKeyFirstColumn(data, row) ==
  "[" \o JsonJoin(data, IF groupBy(data) = <<>> THEN <<>> ELSE <<Head(groupBy(data))>>, row) \o "]"

\* JSON.stringify(groupBy.map((x) => data.columns[x][i]))
RowKey(data, row) == "[" \o JsonJoin(data, groupBy(data), row) \o "]"

\* The bug of setting a fresh line for a key the Map already holds.
MapAddOverwrite(map, key, i) ==
  IF \E j \in DOMAIN map : map[j].key = key
  THEN [j \in DOMAIN map |-> IF map[j].key = key THEN [key |-> key, line |-> <<i>>] ELSE map[j]]
  ELSE Append(map, [key |-> key, line |-> <<i>>])

\* The bug of putting a new key before the keys the Map already holds.
MapAddInFront(map, key, i) ==
  IF \E j \in DOMAIN map : map[j].key = key
  THEN [j \in DOMAIN map |->
          IF map[j].key = key THEN [key |-> key, line |-> Append(map[j].line, i)] ELSE map[j]]
  ELSE <<[key |-> key, line |-> <<i>>]>> \o map

\* One pass of the loop of lineData: map is the Map, in insertion order.
MapAdd(map, key, i) ==
  IF \E j \in DOMAIN map : map[j].key = key
  THEN [j \in DOMAIN map |->
          IF map[j].key = key THEN [key |-> key, line |-> Append(map[j].line, i)] ELSE map[j]]
  ELSE Append(map, [key |-> key, line |-> <<i>>])

RECURSIVE lineDataLoop(_, _, _)
lineDataLoop(data, i, map) ==
  IF i >= data.length THEN map
  ELSE lineDataLoop(data, i + 1, MapAdd(map, RowKey(data, i), i))

lineData(data) ==
  LET map == lineDataLoop(data, 0, <<>>)
  IN  [j \in DOMAIN map |-> map[j].line]

\* Array.prototype.filter
RECURSIVE FilterIdx(_, _)
FilterIdx(indices, keep) ==
  IF indices = <<>> THEN <<>>
  ELSE IF keep[Head(indices) + 1]
       THEN <<Head(indices)>> \o FilterIdx(Tail(indices), keep)
       ELSE FilterIdx(Tail(indices), keep)

\* Array.prototype.sort((ai, bi) => m.at(ai) - m.at(bi)): stable, ascending.
RECURSIVE InsertByKey(_, _, _)
InsertByKey(sorted, e, m) ==
  IF sorted = <<>> THEN <<e>>
  ELSE IF NLt(at(m, e), at(m, Head(sorted))) THEN <<e>> \o sorted
  ELSE <<Head(sorted)>> \o InsertByKey(Tail(sorted), e, m)

\* The bug of leaving the kept indices in the order of the group.
SortByKeyUnsorted(indices, m) == indices

RECURSIVE SortByKey(_, _)
SortByKey(indices, m) ==
  IF indices = <<>> THEN <<>>
  ELSE InsertByKey(SortByKey(SubSeq(indices, 1, Len(indices) - 1), m), indices[Len(indices)], m)

\* The bug of giving no curve for a name that is not known.
resolveInterpolateOrNone(value, orientation) ==
  IF value = "monotone"
  THEN (IF orientation = "horizontal" THEN "curveMonotoneY" ELSE "curveMonotoneX")
  ELSE IF value = "basis" THEN "curveBasis"
  ELSE IF value = "natural" THEN "curveNatural"
  ELSE IF value = "step" THEN "curveStep"
  ELSE IF value = "step-before" THEN "curveStepBefore"
  ELSE IF value = "step-after" THEN "curveStepAfter"
  ELSE IF value = "catmull-rom" THEN "curveCatmullRom"
  ELSE IF value = "cardinal" THEN "curveCardinal"
  ELSE IF value = "linear" THEN "curveLinear"
  ELSE "none"

resolveInterpolate(value, orientation) ==
  IF value = "monotone"
  THEN (IF orientation = "horizontal" THEN "curveMonotoneY" ELSE "curveMonotoneX")
  ELSE IF value = "basis" THEN "curveBasis"
  ELSE IF value = "natural" THEN "curveNatural"
  ELSE IF value = "step" THEN "curveStep"
  ELSE IF value = "step-before" THEN "curveStepBefore"
  ELSE IF value = "step-after" THEN "curveStepAfter"
  ELSE IF value = "catmull-rom" THEN "curveCatmullRom"
  ELSE IF value = "cardinal" THEN "curveCardinal"
  ELSE "curveLinear"

\* What the default case of resolveInterpolate writes with console.warn.
resolveInterpolateWarns(value) ==
  IF value \in {"monotone", "basis", "natural", "step", "step-before", "step-after",
                "catmull-rom", "cardinal", "linear"}
  THEN <<>> ELSE <<"Unknown interpolate: " \o value>>

Orientation(layer) == IF layer.orientation = "absent" THEN "vertical" ELSE layer.orientation

\* The bug of testing only the sort coordinate.
LineKeepOnlyX(x, y) == [i \in DOMAIN x |-> isFinite(x[i])]

\* indices.filter((i) => isFinite(x.at(i)) && isFinite(y.at(i)))
LineKeep(x, y) == [i \in DOMAIN x |-> isFinite(x[i]) /\ isFinite(y[i])]

\* The bug of testing only the first endpoint of the band.
AreaKeepFirstEndpoint(p, b) == [i \in DOMAIN p |-> isFinite(p[i]) /\ isFinite(b[i][1])]

\* indices.filter((i) => isFinite(x.at(i)) && isFinite(y.at(i)[0]) && isFinite(y.at(i)[1]))
AreaKeep(p, b) == [i \in DOMAIN p |-> isFinite(p[i]) /\ isFinite(b[i][1]) /\ isFinite(b[i][2])]

\* What d3.line() is given: the curve and, per kept index in order, its x and y.
linePath(rctx, indices, layer) ==
  LET x == resolvePoint(rctx, "x")
      y == resolvePoint(rctx, "y")
      points == SortByKey(FilterIdx(indices, LineKeep(x, y)), x)
  IN  [curve |-> resolveInterpolate(layer.interpolate, Orientation(layer)),
       points |-> [j \in DOMAIN points |->
                     [i |-> points[j], p |-> at(x, points[j]),
                      b0 |-> at(y, points[j]), b1 |-> at(y, points[j])]]]

\* The bug of ordering the endpoints of the band of every point.
areaPathNormalised(rctx, indices, layer) ==
  LET vertical == Orientation(layer) = "vertical"
      p == resolvePoint(rctx, IF vertical THEN "x" ELSE "y")
      b == resolveBand(rctx, IF vertical THEN "y" ELSE "x", NoDimension)
      points == SortByKey(FilterIdx(indices, [i \in DOMAIN p |-> isFinite(p[i])
                                                /\ isFinite(b[i][1]) /\ isFinite(b[i][2])]), p)
  IN  [curve |-> resolveInterpolate(layer.interpolate, Orientation(layer)),
       points |-> [j \in DOMAIN points |->
                     [i |-> points[j], p |-> at(p, points[j]),
                      b0 |-> NMin(at(b, points[j])[1], at(b, points[j])[2]),
                      b1 |-> NNeg(NMin(NNeg(at(b, points[j])[1]), NNeg(at(b, points[j])[2])))]]]

\* What d3.area() is given: per kept index the point coordinate p (x when
\* vertical, y when horizontal) and the band endpoints b0, b1 on the other axis.
areaPath(rctx, indices, layer) ==
  LET vertical == Orientation(layer) = "vertical"
      p == resolvePoint(rctx, IF vertical THEN "x" ELSE "y")
      b == resolveBand(rctx, IF vertical THEN "y" ELSE "x", NoDimension)
      points == SortByKey(FilterIdx(indices, AreaKeep(p, b)), p)
  IN  [curve |-> resolveInterpolate(layer.interpolate, Orientation(layer)),
       points |-> [j \in DOMAIN points |->
                     [i |-> points[j], p |-> at(p, points[j]),
                      b0 |-> at(b, points[j])[1], b1 |-> at(b, points[j])[2]]]]

\* The bug of sorting the array of indices itself.
ArrayAfterSortInPlace(indices, m) == SortByKey(indices, m)

\* The array indices after indices.filter(...).sort(...): filter gives a new
\* array and sort orders that one in place, so indices is as it was.
ArrayAfterFilterSort(indices, m) == indices

\* The coordinate the builders sort by: x, or y for a horizontal area.
PathSortKey(rctx, layer) ==
  resolvePoint(rctx, IF layer.primitive = "area" /\ Orientation(layer) = "horizontal"
                     THEN "y" ELSE "x")

PathOf(rctx, indices, layer) ==
  IF layer.primitive = "line" THEN linePath(rctx, indices, layer)
  ELSE areaPath(rctx, indices, layer)

(***************************************************************************)
(* Inputs of the line and area builders.                                   *)
(***************************************************************************)
Str(n) == [k |-> "str", v |-> n]
Absent == <<[k |-> "absent", v |-> 0]>>

Opt(S) == S \cup {Absent}

\* The table with the columns of m that are present.
Table(n, m) ==
  [length |-> n, columns |-> [c \in {c \in DOMAIN m : m[c] # Absent} |-> m[c]]]

GroupCells == {Str(1), Str(2), Null}

\* Interpolate names: two the selector knows and one it does not.
Interpolates == {"linear", "monotone", "wavy"}

LineLayers ==
  {[primitive |-> pr[1], orientation |-> pr[2], interpolate |-> ip] :
     pr \in {<<"line", "absent">>, <<"area", "vertical">>, <<"area", "horizontal">>},
     ip \in Interpolates}

InitLine ==
  /\ \E p \in Proxies({"linear"}, ScaleKinds \cup {"none"}), l \in LineLayers, n \in 0..MaxRows :
       \E xs \in Opt([1..n -> PositionCells]), ys \in Opt([1..n -> {F(0), F(1), NaN}]),
          cs \in Opt([1..n -> GroupCells]) :
         lineIn = [rctx |-> [proxy |-> p, data |-> Table(n, [x |-> xs, y |-> ys, color |-> cs]),
                             theme |-> DefaultTheme],
                   layer |-> l]
  /\ lineGroups = <<>>
  /\ linePaths = <<>>
  /\ warnings = <<>>
  /\ linePc = "group"
  /\ IdleBand /\ IdleRender /\ IdleStyle /\ IdleUtil

\* for (let ids of lineData(layer.data))
LineDataCall ==
  /\ linePc = "group"
  /\ lineGroups' = lineData(lineIn.rctx.data)
  /\ linePc' = "path"
  /\ UNCHANGED <<lineIn, linePaths, warnings, bandVars, renderVars, styleVars, utilVars>>

\* linePath(rctx, ids, layer) or areaPath(rctx, ids, layer) for the next group.
\* Also what the call leaves in the array of indices it was given, and what
\* resolveInterpolate writes to the console.  Nothing in the builders assigns
\* to the layer or to the table.
PathCall ==
  /\ linePc = "path"
  /\ Len(linePaths) < Len(lineGroups)
  /\ linePaths' = Append(linePaths,
                         PathOf(lineIn.rctx, lineGroups[Len(linePaths) + 1], lineIn.layer))
  /\ lineGroups' = [lineGroups EXCEPT ![Len(linePaths) + 1] =
                      ArrayAfterFilterSort(@, PathSortKey(lineIn.rctx, lineIn.layer))]
  /\ warnings' = warnings \o resolveInterpolateWarns(lineIn.layer.interpolate)
  /\ UNCHANGED <<lineIn, linePc, bandVars, renderVars, styleVars, utilVars>>

NextLine == LineDataCall \/ PathCall

SpecLine == InitLine /\ [][NextLine]_vars

(***************************************************************************)
(* lineData alone, on tables with two grouping columns.                    *)
(***************************************************************************)
InitGroup ==
  /\ \E p \in Proxies({"linear"}, {"linear"}), n \in 0..MaxGroupRows :
       \E xs \in Opt({[i \in 1..n |-> F(i)], [i \in 1..n |-> F(2 - (i % 2))]}),
          cs \in Opt([1..n -> GroupCells \cup {NaN, PosInf}]),
          ss \in Opt([1..n -> {F(0), F(1)}]) :
         lineIn = [rctx |-> [proxy |-> p, data |-> Table(n, [x |-> xs, color |-> cs, size |-> ss]),
                             theme |-> DefaultTheme],
                   layer |-> [primitive |-> "line", orientation |-> "absent",
                              interpolate |-> "linear"]]
  /\ lineGroups = <<>>
  /\ linePaths = <<>>
  /\ warnings = <<>>
  /\ linePc = "group"
  /\ IdleBand /\ IdleRender /\ IdleStyle /\ IdleUtil

NextGroup == LineDataCall

SpecGroup == InitGroup /\ [][NextGroup]_vars

(***************************************************************************)
(* Styles.  A colour field of MarkStyle is [kind, name]: absent (undefined *)
(* or null), a literal colour, or a "$name" token ("$encoding" is the      *)
(* token encoding).  Opacities are in percent and alphas, their products,  *)
(* in 1/10000; -1 and "absent" stand for an undefined field.               *)
(***************************************************************************)
NoColor == [kind |-> "absent", name |-> ""]
Literal(c) == [kind |-> "literal", name |-> c]
Token(t) == [kind |-> "token", name |-> t]
Encoding == Token("encoding")

ColorApply(c) == IF c.k = "str" THEN "#c" \o ToString(c.v) ELSE "#unknown"

SizeApply(c) == IF c.k = "fin" THEN F(100 * c.v) ELSE IF c.k = "null" THEN NaN ELSE c

resolveColor(rctx) ==
  IF HasColumn(rctx.data, "color") /\ HasScale(rctx.proxy, "color")
  THEN [i \in 1..Len(rctx.data.columns["color"]) |-> ColorApply(rctx.data.columns["color"][i])]
  ELSE constant(rctx.data.length, rctx.theme.markColor)

resolveSize(rctx, defaultValue) ==
  IF HasColumn(rctx.data, "size") /\ HasScale(rctx.proxy, "size")
  THEN [i \in 1..Len(rctx.data.columns["size"]) |-> SizeApply(rctx.data.columns["size"][i])]
  ELSE constant(rctx.data.length, IF defaultValue < 0 THEN F(100) ELSE F(defaultValue))

\* maybeConstColor of resolveStyle; "undefined" is its undefined result.
maybeConstColor(theme, value) ==
  IF value.kind = "absent" THEN "none"
  ELSE IF value = Encoding THEN "undefined"
  ELSE IF value.kind = "token"
  THEN (IF value.name \in DOMAIN theme THEN theme[value.name] ELSE "$" \o value.name)
  ELSE value.name

\* The bug of leaving an encoded colour as the constant part gives it.
resolveStyleNoEncoding(rctx, style) ==
  LET consts == [strokeWidth |-> style.strokeWidth, strokeLinecap |-> style.strokeCap,
                 strokeLinejoin |-> style.strokeJoin, strokeOpacity |-> style.strokeOpacity,
                 fillOpacity |-> style.fillOpacity, paintOrder |-> style.paintOrder,
                 opacity |-> style.opacity,
                 fill |-> maybeConstColor(rctx.theme, style.fillColor),
                 stroke |-> maybeConstColor(rctx.theme, style.strokeColor)]
  IN  [i \in 1..rctx.data.length |-> consts]

resolveStyle(rctx, style) ==
  LET color == resolveColor(rctx)
      consts == [strokeWidth |-> style.strokeWidth, strokeLinecap |-> style.strokeCap,
                 strokeLinejoin |-> style.strokeJoin, strokeOpacity |-> style.strokeOpacity,
                 fillOpacity |-> style.fillOpacity, paintOrder |-> style.paintOrder,
                 opacity |-> style.opacity,
                 fill |-> maybeConstColor(rctx.theme, style.fillColor),
                 stroke |-> maybeConstColor(rctx.theme, style.strokeColor)]
  IN  [i \in 1..rctx.data.length |->
         [consts EXCEPT !.fill = IF style.fillColor = Encoding THEN color[i] ELSE @,
                        !.stroke = IF style.strokeColor = Encoding THEN color[i] ELSE @]]

(***************************************************************************)
(* Calls on the 2D context, as records [op, n, s, i, path]: the numeric    *)
(* arguments n, a string argument s, a row index i and, for the path d3    *)
(* draws into the context, the curve and its points.                       *)
(***************************************************************************)
NoPath == [curve |-> "", points |-> <<>>]

Call(op, n) == [op |-> op, n |-> n, s |-> "", i |-> -1, path |-> NoPath]
SetCall(op, n, str) == [op |-> op, n |-> n, s |-> str, i |-> -1, path |-> NoPath]
PathCallOf(d) == [op |-> "d3path", n |-> <<>>, s |-> "", i |-> -1, path |-> d]
DrawMark(i) == [op |-> "style.draw", n |-> <<>>, s |-> "", i |-> i, path |-> NoPath]

OrElse(v, d) == IF v < 0 THEN d ELSE v
OrElseStr(v, d) == IF v = "absent" THEN d ELSE v

\* The bug of giving no paint for a token the theme does not define.
canvasMaybeConstColorNoFallback(theme, value) ==
  IF value.kind = "absent" THEN "none"
  ELSE IF value = Encoding THEN "undefined"
  ELSE IF value.kind = "token"
  THEN (IF value.name \in DOMAIN theme THEN theme[value.name] ELSE "none")
  ELSE value.name

\* maybeConstColor of resolveCanvasStyle, a second copy of the function's text.
canvasMaybeConstColor(theme, value) ==
  IF value.kind = "absent" THEN "none"
  ELSE IF value = Encoding THEN "undefined"
  ELSE IF value.kind = "token"
  THEN (IF value.name \in DOMAIN theme THEN theme[value.name] ELSE "$" \o value.name)
  ELSE value.name

\* resolveCanvasStyle(...).prepare(ctx)
stylePrepare(rctx, style) ==
  LET constFillColor == canvasMaybeConstColor(rctx.theme, style.fillColor)
      constStrokeColor == canvasMaybeConstColor(rctx.theme, style.strokeColor)
  IN  <<SetCall("lineWidth", <<F(OrElse(style.strokeWidth, 1))>>, ""),
        SetCall("lineCap", <<>>, OrElseStr(style.strokeCap, "butt")),
        SetCall("lineJoin", <<>>, OrElseStr(style.strokeJoin, "bevel")),
        SetCall("globalAlpha", <<F(100 * OrElse(style.opacity, 100))>>, "")>>
      \o (IF constFillColor # "undefined" THEN <<SetCall("fillStyle", <<>>, constFillColor)>> ELSE <<>>)
      \o (IF constStrokeColor # "undefined" THEN <<SetCall("strokeStyle", <<>>, constStrokeColor)>> ELSE <<>>)

\* The bug of setting the row's encoded colour whatever the style's colours are.
styleDrawAlwaysEncoded(rctx, style, index) ==
  LET color == resolveColor(rctx)
      fillAlpha == OrElse(style.opacity, 100) * OrElse(style.fillOpacity, 100)
      strokeAlpha == OrElse(style.opacity, 100) * OrElse(style.strokeOpacity, 100)
      fillFirst == style.paintOrder # "stroke fill"
      fill == IF style.fillColor.kind # "absent" /\ fillAlpha > 0
              THEN <<SetCall("globalAlpha", <<F(fillAlpha)>>, ""), Call("fill", <<>>)>> ELSE <<>>
      stroke == IF style.strokeColor.kind # "absent" /\ strokeAlpha > 0
                THEN <<SetCall("globalAlpha", <<F(strokeAlpha)>>, ""), Call("stroke", <<>>)>> ELSE <<>>
  IN  <<DrawMark(index), SetCall("fillStyle", <<>>, at(color, index)),
        SetCall("strokeStyle", <<>>, at(color, index))>>
      \o (IF fillFirst THEN fill \o stroke ELSE stroke \o fill)

\* The bug of filling first whatever paintOrder is.
styleDrawFillFirst(rctx, style, index) ==
  LET color == resolveColor(rctx)
      fillAlpha == OrElse(style.opacity, 100) * OrElse(style.fillOpacity, 100)
      strokeAlpha == OrElse(style.opacity, 100) * OrElse(style.strokeOpacity, 100)
      fill == IF style.fillColor.kind # "absent" /\ fillAlpha > 0
              THEN <<SetCall("globalAlpha", <<F(fillAlpha)>>, ""), Call("fill", <<>>)>> ELSE <<>>
      stroke == IF style.strokeColor.kind # "absent" /\ strokeAlpha > 0
                THEN <<SetCall("globalAlpha", <<F(strokeAlpha)>>, ""), Call("stroke", <<>>)>> ELSE <<>>
  IN  <<DrawMark(index)>>
      \o (IF style.fillColor = Encoding THEN <<SetCall("fillStyle", <<>>, at(color, index))>> ELSE <<>>)
      \o (IF style.strokeColor = Encoding THEN <<SetCall("strokeStyle", <<>>, at(color, index))>> ELSE <<>>)
      \o fill \o stroke

\* resolveCanvasStyle(...).draw(ctx, index)
styleDraw(rctx, style, index) ==
  LET color == resolveColor(rctx)
      fillAlpha == OrElse(style.opacity, 100) * OrElse(style.fillOpacity, 100)
      strokeAlpha == OrElse(style.opacity, 100) * OrElse(style.strokeOpacity, 100)
      fillFirst == style.paintOrder # "stroke fill"
      fill == IF style.fillColor.kind # "absent" /\ fillAlpha > 0
              THEN <<SetCall("globalAlpha", <<F(fillAlpha)>>, ""), Call("fill", <<>>)>> ELSE <<>>
      stroke == IF style.strokeColor.kind # "absent" /\ strokeAlpha > 0
                THEN <<SetCall("globalAlpha", <<F(strokeAlpha)>>, ""), Call("stroke", <<>>)>> ELSE <<>>
  IN  <<DrawMark(index)>>
      \o (IF style.fillColor = Encoding THEN <<SetCall("fillStyle", <<>>, at(color, index))>> ELSE <<>>)
      \o (IF style.strokeColor = Encoding THEN <<SetCall("strokeStyle", <<>>, at(color, index))>> ELSE <<>>)
      \o (IF fillFirst THEN fill \o stroke ELSE stroke \o fill)

(***************************************************************************)
(* The two style resolvers alone, on one context and one MarkStyle: the    *)
(* attributes resolveStyle gives each row, and the calls that prepare and  *)
(* each draw(ctx, index) of resolveCanvasStyle make.                       *)
(***************************************************************************)
ColorValues == {NoColor, Encoding, Token("ruleColor"), Token("accent"), Literal("#f00")}

ColorProxy(colorScale) ==
  [plotWidth |-> 64, plotHeight |-> 48,
   scale |-> [x |-> "linear", y |-> "linear", color |-> colorScale, size |-> "none"]]

InitStyle ==
  /\ \E n \in 0..MaxStyleRows, cs \in {"ordinal", "none"}, fc \in ColorValues, sc \in ColorValues,
        op \in {-1, 0, 50}, fo \in {-1, 50, 200}, so \in {-1, 0, 50},
        po \in {"absent", "stroke", "stroke fill"} :
       \E col \in Opt([1..n -> {Str(1), Str(2), Null}]) :
         styleIn = [rctx |-> [proxy |-> ColorProxy(cs), data |-> Table(n, [color |-> col]),
                              theme |-> DefaultTheme],
                    style |-> [strokeWidth |-> -1, strokeCap |-> "absent", strokeJoin |-> "absent",
                               strokeOpacity |-> so, fillOpacity |-> fo, paintOrder |-> po,
                               opacity |-> op, fillColor |-> fc, strokeColor |-> sc]]
  /\ styleOut = <<>>
  /\ stylePc = "call"
  /\ IdleBand /\ IdleLine /\ IdleRender /\ IdleUtil

\* resolveStyle(rctx, style) and resolveCanvasStyle(rctx, style), materialised over every row.
ResolveStyleCall ==
  /\ stylePc = "call"
  /\ styleOut' = [attrs |-> resolveStyle(styleIn.rctx, styleIn.style),
                  color |-> resolveColor(styleIn.rctx),
                  prepare |-> stylePrepare(styleIn.rctx, styleIn.style),
                  draws |-> [i \in 1..styleIn.rctx.data.length |->
                               styleDraw(styleIn.rctx, styleIn.style, i - 1)]]
  /\ stylePc' = "done"
  /\ UNCHANGED <<styleIn, bandVars, lineVars, renderVars, utilVars>>

NextStyle == ResolveStyleCall

SpecStyle == InitStyle /\ [][NextStyle]_vars

(***************************************************************************)
(* Geometry helpers shared by the two renderers' source text.              *)
(***************************************************************************)
\* The integer square root of n, known to lie in lo..hi.
RECURSIVE ISqrtBetween(_, _, _)
ISqrtBetween(n, lo, hi) ==
  IF lo >= hi THEN lo
  ELSE LET mid == (lo + hi + 1) \div 2
       IN  IF mid * mid <= n THEN ISqrtBetween(n, mid, hi) ELSE ISqrtBetween(n, lo, mid - 1)

\* The bug of taking the size as the square of the radius.
RadiusWithoutPi(size) ==
  IF size.k = "nan" THEN NaN
  ELSE IF size.k = "inf" THEN (IF size.v > 0 THEN size ELSE NaN)
  ELSE IF size.v < 0 THEN NaN
  ELSE F(ISqrtBetween(size.v * 10000, 0, 46340))

\* Math.sqrt(size / Math.PI), in hundredths, with pi taken as 355 / 113.
Radius(size) ==
  IF size.k = "nan" THEN NaN
  ELSE IF size.k = "inf" THEN (IF size.v > 0 THEN size ELSE NaN)
  ELSE IF size.v < 0 THEN NaN
  ELSE F(ISqrtBetween((size.v * 10000 * 113) \div 355, 0, 46340))

RECURSIVE Flatten(_)
Flatten(ss) == IF ss = <<>> THEN <<>> ELSE Head(ss) \o Flatten(Tail(ss))

(***************************************************************************)
(* Layer.svelte: createElements.  An SVG element is [tag, row, n, path,    *)
(* attrs]: its geometry attributes n in the order the code sets them, the  *)
(* path data of a <path>, the style attributes, and the row it was made    *)
(* for.  svgYields is what each iteration of the primitive's loop yields:  *)
(* one element or nothing.                                                 *)
(***************************************************************************)
Element(tag, row, n, d, attrs) == [tag |-> tag, row |-> row, n |-> n, path |-> d, attrs |-> attrs]

\* The bug of taking the signed differences of the bounds as the size.
svgRectRowSignedSize(i, xb, yb, attrs) ==
  IF isFinite(xb[1]) /\ isFinite(xb[2]) /\ isFinite(yb[1]) /\ isFinite(yb[2])
  THEN <<Element("rect", i,
                 <<NMin(xb[1], xb[2]), NMin(yb[1], yb[2]),
                   NSub(xb[2], xb[1]), NSub(yb[2], yb[1])>>,
                 NoPath, attrs)>>
  ELSE <<>>

\* The body of the loops over rows, for one row: what the iteration yields.
svgRectRow(i, xb, yb, attrs) ==
  IF isFinite(xb[1]) /\ isFinite(xb[2]) /\ isFinite(yb[1]) /\ isFinite(yb[2])
  THEN <<Element("rect", i,
                 <<NMin(xb[1], xb[2]), NMin(yb[1], yb[2]),
                   NAbs(NSub(xb[2], xb[1])), NAbs(NSub(yb[2], yb[1]))>>,
                 NoPath, attrs)>>
  ELSE <<>>

svgRect(rctx, layer) ==
  LET x == resolveBand(rctx, "x", layer.xDimension)
      y == resolveBand(rctx, "y", layer.yDimension)
      attrs == resolveStyle(rctx, layer.style)
  IN  [k \in 1..layer.data.length |-> svgRectRow(k - 1, x[k], y[k], attrs[k])]

\* The bug of emitting a point whatever its size.
svgPointRowAnySize(i, xi, yi, sizei, attrs) ==
  IF isFinite(xi) /\ isFinite(yi)
  THEN <<Element("circle", i, <<xi, yi, Radius(sizei)>>, NoPath, attrs)>>
  ELSE <<>>

svgPointRow(i, xi, yi, sizei, attrs) ==
  IF isFinite(xi) /\ isFinite(yi) /\ isFinite(sizei)
  THEN <<Element("circle", i, <<xi, yi, Radius(sizei)>>, NoPath, attrs)>>
  ELSE <<>>

svgPoint(rctx, layer) ==
  LET x == resolvePoint(rctx, "x")
      y == resolvePoint(rctx, "y")
      size == resolveSize(rctx, layer.pointSize)
      attrs == resolveStyle(rctx, layer.style)
  IN  [k \in 1..layer.data.length |-> svgPointRow(k - 1, x[k], y[k], size[k], attrs[k])]

svgRuleRow(i, xb, yb, attrs) ==
  IF isFinite(xb[1]) /\ isFinite(xb[2]) /\ isFinite(yb[1]) /\ isFinite(yb[2])
  THEN <<Element("line", i, <<xb[1], yb[1], xb[2], yb[2]>>, NoPath, attrs)>>
  ELSE <<>>

svgRule(rctx, layer) ==
  LET x == resolveBand(rctx, "x", layer.xDimension)
      y == resolveBand(rctx, "y", layer.yDimension)
      attrs == resolveStyle(rctx, layer.style)
  IN  [k \in 1..layer.data.length |-> svgRuleRow(k - 1, x[k], y[k], attrs[k])]

\* The bug of making an element whatever d is.
svgPathOfAny(ids, d, attrs) == <<Element("path", ids[1], <<>>, d, attrs)>>

\* d3 returns null for a path without points, and then no element is made.
svgPathOf(ids, d, attrs) ==
  IF d.points # <<>> THEN <<Element("path", ids[1], <<>>, d, attrs)>> ELSE <<>>

svgLine(rctx, layer) ==
  LET attrs == resolveStyle(rctx, layer.style)
      groups == lineData(layer.data)
  IN  [g \in DOMAIN groups |->
         svgPathOf(groups[g], linePath(rctx, groups[g], layer), at(attrs, groups[g][1]))]

svgArea(rctx, layer) ==
  LET attrs == resolveStyle(rctx, layer.style)
      groups == lineData(layer.data)
  IN  [g \in DOMAIN groups |->
         svgPathOf(groups[g], areaPath(rctx, groups[g], layer), at(attrs, groups[g][1]))]

svgYields(rctx, layer) ==
  IF layer.primitive = "rect" THEN svgRect(rctx, layer)
  ELSE IF layer.primitive = "point" THEN svgPoint(rctx, layer)
  ELSE IF layer.primitive = "rule" THEN svgRule(rctx, layer)
  ELSE IF layer.primitive = "line" THEN svgLine(rctx, layer)
  ELSE IF layer.primitive = "area" THEN svgArea(rctx, layer)
  ELSE <<>>

createElements(rctx, layer) == Flatten(svgYields(rctx, layer))

(***************************************************************************)
(* LayerCanvas.svelte: draw, as the sequence of calls it makes on ctx.     *)
(***************************************************************************)
\* The bug of taking the first bounds as the origin of the rectangle.
canvasRectRowFromFirstBounds(rctx, layer, i, xb, yb) ==
  IF isFinite(xb[1]) /\ isFinite(xb[2]) /\ isFinite(yb[1]) /\ isFinite(yb[2])
  THEN <<Call("beginPath", <<>>),
         Call("rect", <<xb[1], yb[1], NAbs(NSub(xb[2], xb[1])), NAbs(NSub(yb[2], yb[1]))>>)>>
       \o styleDraw(rctx, layer.style, i)
  ELSE <<>>

\* The body of the loops over rows, for one row: the calls of the iteration.
canvasRectRow(rctx, layer, i, xb, yb) ==
  IF isFinite(xb[1]) /\ isFinite(xb[2]) /\ isFinite(yb[1]) /\ isFinite(yb[2])
  THEN <<Call("beginPath", <<>>),
         Call("rect", <<NMin(xb[1], xb[2]), NMin(yb[1], yb[2]),
                        NAbs(NSub(xb[2], xb[1])), NAbs(NSub(yb[2], yb[1]))>>)>>
       \o styleDraw(rctx, layer.style, i)
  ELSE <<>>

canvasRect(rctx, layer) ==
  LET x == resolveBand(rctx, "x", layer.xDimension)
      y == resolveBand(rctx, "y", layer.yDimension)
  IN  [k \in 1..layer.data.length |-> canvasRectRow(rctx, layer, k - 1, x[k], y[k])]

canvasPointRow(rctx, layer, i, xi, yi, sizei) ==
  IF isFinite(xi) /\ isFinite(yi) /\ isFinite(sizei)
  THEN <<Call("beginPath", <<>>), Call("arc", <<xi, yi, Radius(sizei)>>)>>
       \o styleDraw(rctx, layer.style, i)
  ELSE <<>>

canvasRuleRow(rctx, layer, i, xb, yb) ==
  IF isFinite(xb[1]) /\ isFinite(xb[2]) /\ isFinite(yb[1]) /\ isFinite(yb[2])
  THEN <<Call("beginPath", <<>>), Call("moveTo", <<xb[1], yb[1]>>),
         Call("lineTo", <<xb[2], yb[2]>>)>>
       \o styleDraw(rctx, layer.style, i)
  ELSE <<>>

canvasPoint(rctx, layer) ==
  LET x == resolvePoint(rctx, "x")
      y == resolvePoint(rctx, "y")
      size == resolveSize(rctx, layer.pointSize)
  IN  [k \in 1..layer.data.length |-> canvasPointRow(rctx, layer, k - 1, x[k], y[k], size[k])]

canvasRule(rctx, layer) ==
  LET x == resolveBand(rctx, "x", layer.xDimension)
      y == resolveBand(rctx, "y", layer.yDimension)
  IN  [k \in 1..layer.data.length |-> canvasRuleRow(rctx, layer, k - 1, x[k], y[k])]

canvasLine(rctx, layer) ==
  LET groups == lineData(layer.data)
  IN  [g \in DOMAIN groups |->
         <<Call("beginPath", <<>>), PathCallOf(linePath(rctx, groups[g], layer))>>
         \o styleDraw(rctx, layer.style, groups[g][1])]

canvasArea(rctx, layer) ==
  LET groups == lineData(layer.data)
  IN  [g \in DOMAIN groups |->
         <<Call("beginPath", <<>>), PathCallOf(areaPath(rctx, groups[g], layer))>>
         \o styleDraw(rctx, layer.style, groups[g][1])]

canvasIterations(rctx, layer) ==
  IF layer.primitive = "rect" THEN canvasRect(rctx, layer)
  ELSE IF layer.primitive = "point" THEN canvasPoint(rctx, layer)
  ELSE IF layer.primitive = "rule" THEN canvasRule(rctx, layer)
  ELSE IF layer.primitive = "line" THEN canvasLine(rctx, layer)
  ELSE IF layer.primitive = "area" THEN canvasArea(rctx, layer)
  ELSE <<>>

draw(rctx, layer) ==
  IF layer.primitive \in {"rect", "point", "rule", "line", "area"}
  THEN stylePrepare(rctx, layer.style) \o Flatten(canvasIterations(rctx, layer))
  ELSE <<>>

(***************************************************************************)
(* The 2D context.  The surface is what the canvas shows (pixels: the      *)
(* paints made since it was last cleared) and the drawing state of its     *)
(* context.  A transform is x -> s * x + t.  Assigning "none", which is    *)
(* not a colour, to fillStyle or strokeStyle leaves it as it was.          *)
(***************************************************************************)
margin == 24
pixelRatio == 2

CanvasWidth(proxy) == (proxy.plotWidth + 4 * margin * 2) * pixelRatio
CanvasHeight(proxy) == (proxy.plotHeight + 4 * margin * 2) * pixelRatio

DefaultState ==
  [fillStyle |-> "#000000", strokeStyle |-> "#000000", lineWidth |-> F(1), lineCap |-> "butt",
   lineJoin |-> "miter", globalAlpha |-> F(10000), tf |-> [s |-> 1, tx |-> 0, ty |-> 0],
   path |-> <<>>]

EmptySurface == [pixels |-> <<>>, state |-> DefaultState]

Covers(tf, n, w, h) ==
  /\ \A j \in 1..4 : isFinite(n[j])
  /\ tf.s * n[1].v + tf.tx <= 0 /\ tf.s * (n[1].v + n[3].v) + tf.tx >= w
  /\ tf.s * n[2].v + tf.ty <= 0 /\ tf.s * (n[2].v + n[4].v) + tf.ty >= h

Paint(sf, kind) ==
  IF sf.state.path = <<>> THEN sf
  ELSE [sf EXCEPT !.pixels =
          Append(@, [paint |-> kind, shapes |-> sf.state.path,
                     color |-> IF kind = "fill" THEN sf.state.fillStyle ELSE sf.state.strokeStyle,
                     alpha |-> sf.state.globalAlpha,
                     lineWidth |-> IF kind = "fill" THEN F(0) ELSE sf.state.lineWidth])]

ApplyCall(sf, c, w, h) ==
  CASE c.op = "reset" -> EmptySurface
    [] c.op = "clearRect" ->
         IF Covers(sf.state.tf, c.n, w, h) THEN [sf EXCEPT !.pixels = <<>>] ELSE sf
    [] c.op = "scale" -> [sf EXCEPT !.state.tf.s = @ * c.n[1].v]
    [] c.op = "translate" ->
         [sf EXCEPT !.state.tf.tx = @ + sf.state.tf.s * c.n[1].v,
                    !.state.tf.ty = @ + sf.state.tf.s * c.n[2].v]
    [] c.op = "lineWidth" -> [sf EXCEPT !.state.lineWidth = c.n[1]]
    [] c.op = "lineCap" -> [sf EXCEPT !.state.lineCap = c.s]
    [] c.op = "lineJoin" -> [sf EXCEPT !.state.lineJoin = c.s]
    [] c.op = "globalAlpha" ->
         \* the context ignores a value outside 0..1
         IF isFinite(c.n[1]) /\ c.n[1].v >= 0 /\ c.n[1].v <= 10000
         THEN [sf EXCEPT !.state.globalAlpha = c.n[1]] ELSE sf
    [] c.op = "fillStyle" -> IF c.s = "none" THEN sf ELSE [sf EXCEPT !.state.fillStyle = c.s]
    [] c.op = "strokeStyle" -> IF c.s = "none" THEN sf ELSE [sf EXCEPT !.state.strokeStyle = c.s]
    [] c.op = "beginPath" -> [sf EXCEPT !.state.path = <<>>]
    [] c.op \in {"rect", "arc", "moveTo", "lineTo"} ->
         [sf EXCEPT !.state.path = Append(@, [op |-> c.op, n |-> c.n, path |-> NoPath,
                                              tf |-> sf.state.tf])]
    [] c.op = "d3path" ->
         IF c.path.points = <<>> THEN sf
         ELSE [sf EXCEPT !.state.path = Append(@, [op |-> c.op, n |-> c.n, path |-> c.path,
                                                   tf |-> sf.state.tf])]
    [] c.op = "fill" -> Paint(sf, "fill")
    [] c.op = "stroke" -> Paint(sf, "stroke")
    [] OTHER -> sf

\* The surface after the calls, made in order.
RECURSIVE ApplyCalls(_, _, _, _)
ApplyCalls(sf, calls, w, h) ==
  IF calls = <<>> THEN sf
  ELSE ApplyCall(ApplyCalls(sf, SubSeq(calls, 1, Len(calls) - 1), w, h), calls[Len(calls)], w, h)

\* The resolvers draw() calls for the layer's primitive.
drawResolvers(layer) ==
  IF layer.primitive \in {"rect", "rule"}
  THEN <<"resolveBand", "resolveBand", "resolveCanvasStyle">>
  ELSE IF layer.primitive = "point"
  THEN <<"resolvePoint", "resolvePoint", "resolveSize", "resolveCanvasStyle">>
  ELSE IF layer.primitive \in {"line", "area"} THEN <<"resolveCanvasStyle", "lineData">>
  ELSE <<>>

Rctx(p) == [proxy |-> p.proxy, data |-> p.layer.data, theme |-> p.theme]

\* A pass that made the calls on the surface sf of a canvas of w by h.
Pass(sf, calls, resolved, w, h) ==
  [calls |-> calls, resolved |-> resolved, surface |-> ApplyCalls(sf, calls, w, h),
   pass |-> "drawn"]

Skipped(sf) == [calls |-> <<>>, resolved |-> <<>>, surface |-> sf, pass |-> "skipped"]

\* The bug of drawing without resetting and clearing the surface first.
drawCanvasNoClear(hasCtx, sf, p) ==
  IF ~ hasCtx THEN Skipped(sf)
  ELSE Pass(sf,
            <<Call("scale", <<F(pixelRatio), F(pixelRatio)>>),
              Call("translate", <<F(4 * margin), F(4 * margin)>>)>>
            \o draw(Rctx(p), p.layer),
            drawResolvers(p.layer), CanvasWidth(p.proxy), CanvasHeight(p.proxy))

\* The bug of going on without a context.
drawCanvasNoNullCheck(hasCtx, sf, p) ==
  Pass(sf,
       <<Call("reset", <<>>),
         Call("clearRect", <<F(0), F(0), F(CanvasWidth(p.proxy)), F(CanvasHeight(p.proxy))>>),
         Call("scale", <<F(pixelRatio), F(pixelRatio)>>),
         Call("translate", <<F(4 * margin), F(4 * margin)>>)>>
       \o draw(Rctx(p), p.layer),
       drawResolvers(p.layer), CanvasWidth(p.proxy), CanvasHeight(p.proxy))

\* drawCanvas(canvas, margin, pixelRatio, rctx, layer): the calls it makes, the
\* resolvers it runs and the surface it leaves; hasCtx: getContext("2d") is not null.
drawCanvas(hasCtx, sf, p) ==
  IF ~ hasCtx THEN Skipped(sf)
  ELSE Pass(sf,
            <<Call("reset", <<>>),
              Call("clearRect", <<F(0), F(0), F(CanvasWidth(p.proxy)), F(CanvasHeight(p.proxy))>>),
              Call("scale", <<F(pixelRatio), F(pixelRatio)>>),
              Call("translate", <<F(4 * margin), F(4 * margin)>>)>>
            \o draw(Rctx(p), p.layer),
            drawResolvers(p.layer), CanvasWidth(p.proxy), CanvasHeight(p.proxy))

(***************************************************************************)
(* The two components' effects.  The retained-mode effect runs in steps:   *)
(* it makes the generator and the fragment, appends what each iteration of *)
(* the generator yields, then replaces the container's children.           *)
(***************************************************************************)
\* let elements = createElements(...); let frag = document.createDocumentFragment();
SvgEffectStart ==
  /\ svgDirty /\ svgPc = "idle"
  /\ svgDirty' = FALSE
  /\ svgPc' = "build"
  /\ svgIter' = 0
  /\ frag' = <<>>
  /\ UNCHANGED <<container, props, hasContext, renders, canvasVars, bandVars, lineVars, styleVars, utilVars>>

\* The bug of appending each element to the container as it is made.
SvgEffectNextIntoContainer ==
  /\ svgPc = "build"
  /\ \E yields \in {svgYields(Rctx(props), props.layer)} :
       /\ svgIter < Len(yields)
       /\ container' = container \o yields[svgIter + 1]
  /\ svgIter' = svgIter + 1
  /\ UNCHANGED <<frag, svgDirty, svgPc, props, hasContext, renders, canvasVars, bandVars, lineVars, styleVars, utilVars>>

\* for (let el of elements) frag.appendChild(el): one iteration of the generator's loop.
SvgEffectNext ==
  /\ svgPc = "build"
  /\ \E yields \in {svgYields(Rctx(props), props.layer)} :
       /\ svgIter < Len(yields)
       /\ frag' = frag \o yields[svgIter + 1]
  /\ svgIter' = svgIter + 1
  /\ UNCHANGED <<container, svgDirty, svgPc, props, hasContext, renders, canvasVars, bandVars, lineVars, styleVars, utilVars>>

\* The bug of appending the fragment to the children already there.
SvgEffectCommitAppend ==
  /\ svgPc = "build"
  /\ svgIter = Len(svgYields(Rctx(props), props.layer))
  /\ container' = container \o frag
  /\ frag' = <<>>
  /\ svgPc' = "idle"
  /\ UNCHANGED <<svgIter, svgDirty, props, hasContext, renders, canvasVars, bandVars, lineVars, styleVars, utilVars>>

\* container.replaceChildren(frag)
SvgEffectCommit ==
  /\ svgPc = "build"
  /\ svgIter = Len(svgYields(Rctx(props), props.layer))
  /\ container' = frag
  /\ frag' = <<>>
  /\ svgPc' = "idle"
  /\ UNCHANGED <<svgIter, svgDirty, props, hasContext, renders, canvasVars, bandVars, lineVars, styleVars, utilVars>>

\* $effect(() => drawCanvas(canvas, margin, pixelRatio, {proxy, data, theme}, layer))
CanvasEffect ==
  /\ canvasDirty /\ svgPc = "idle"
  /\ canvasDirty' = FALSE
  /\ \E r \in {drawCanvas(hasContext, surface, props)} :
       /\ surface' = r.surface
       /\ lastCalls' = r.calls
       /\ lastResolved' = r.resolved
       /\ lastPass' = r.pass
  /\ UNCHANGED <<props, hasContext, renders, svgVars, bandVars, lineVars, styleVars, utilVars>>

(***************************************************************************)
(* Inputs of the renderers.                                                *)
(***************************************************************************)
StyleEncoded ==
  [strokeWidth |-> -1, strokeCap |-> "absent", strokeJoin |-> "absent", strokeOpacity |-> -1,
   fillOpacity |-> -1, paintOrder |-> "absent", opacity |-> -1,
   fillColor |-> Encoding, strokeColor |-> NoColor]

StyleOutlined ==
  [strokeWidth |-> 2, strokeCap |-> "round", strokeJoin |-> "round", strokeOpacity |-> -1,
   fillOpacity |-> 50, paintOrder |-> "stroke fill", opacity |-> 50,
   fillColor |-> Literal("#f00"), strokeColor |-> Token("ruleColor")]

Layer(primitive, data, style, xDimension, yDimension, pointSize, orientation) ==
  [primitive |-> primitive, data |-> data, style |-> style, xDimension |-> xDimension,
   yDimension |-> yDimension, pointSize |-> pointSize, orientation |-> orientation,
   interpolate |-> "linear"]

FullProxy ==
  [plotWidth |-> 64, plotHeight |-> 48,
   scale |-> [x |-> "linear", y |-> "reversed", color |-> "ordinal", size |-> "linear"]]

Props(layer) == [proxy |-> FullProxy, theme |-> DefaultTheme, layer |-> layer]

\* A column of the other axis of a banded mark, or of the ordinate of a point or a
\* path: absent, finite in every row, or missing in the first row.
SecondColumns(n, v) == {Absent, [i \in 1..n |-> v], [i \in 1..n |-> IF i = 1 THEN NaN ELSE v]}

BandStyles ==
  {<<StyleEncoded, NoDimension, NoDimension>>,
   <<StyleOutlined, [kind |-> "number", a |-> 8, b |-> 0], NoDimension>>,
   <<StyleEncoded, NoDimension, [kind |-> "gap", a |-> 4, b |-> 2]>>}

\* Banded marks: one axis from a column or a pair of columns with any cell
\* missing, the other from at most one column.
InitDrawBand ==
  \E pr \in {"rect", "rule"}, st \in BandStyles, n \in 0..MaxDrawRows :
    \/ \E xs \in Opt([1..n -> PositionCells]), ys \in SecondColumns(n, F(0)) :
         props = Props(Layer(pr, Table(n, [x |-> xs, y |-> ys]), st[1], st[2], st[3], -1, "absent"))
    \/ \E a \in [1..n -> {F(0), NaN}], b \in [1..n -> {F(1), NaN}], ys \in SecondColumns(n, F(0)) :
         props = Props(Layer(pr, Table(n, [x1 |-> a, x2 |-> b, y |-> ys]), st[1], st[2], st[3],
                             -1, "absent"))
    \/ \E a \in [1..n -> {F(0), NaN}], b \in [1..n -> {F(1), NaN}], xs \in SecondColumns(n, F(0)) :
         props = Props(Layer(pr, Table(n, [y1 |-> a, y2 |-> b, x |-> xs]), st[1], st[2], st[3],
                             -1, "absent"))

InitDrawPoint ==
  \E ps \in {-1, 400}, n \in 0..MaxDrawRows :
    \E xs \in Opt([1..n -> {F(0), NaN}]), ys \in SecondColumns(n, F(1)),
       ss \in Opt([1..n -> {F(1), F(4), NaN}]) :
      props = Props(Layer("point", Table(n, [x |-> xs, y |-> ys, size |-> ss]), StyleEncoded,
                          NoDimension, NoDimension, ps, "absent"))

\* Lines and areas over x, y and a grouping column, and vertical areas whose
\* band is the pair of columns y1, y2, with either of the two the larger.
InitDrawPath ==
  \/ \E pr \in {<<"line", "absent">>, <<"area", "vertical">>, <<"area", "horizontal">>},
        n \in 0..MaxDrawRows :
       \E xs \in Opt([1..n -> PositionCells]), ys \in SecondColumns(n, F(0)),
          cs \in Opt([1..n -> {Str(1), Str(2)}]) :
         props = Props(Layer(pr[1], Table(n, [x |-> xs, y |-> ys, color |-> cs]), StyleOutlined,
                             NoDimension, NoDimension, -1, pr[2]))
  \/ \E n \in 0..MaxDrawRows :
       \E a \in [1..n -> {F(-1), F(3)}], b \in [1..n -> {F(-1), F(3)}] :
         props = Props(Layer("area", Table(n, [x |-> [i \in 1..n |-> F(i)], y1 |-> a, y2 |-> b]),
                             StyleOutlined, NoDimension, NoDimension, -1, "vertical"))

IdleOthers == IdleBand /\ IdleLine /\ IdleStyle /\ IdleUtil

InitEffects ==
  /\ svgDirty = TRUE /\ svgPc = "idle" /\ svgIter = 0 /\ frag = <<>> /\ container = <<>>
  /\ canvasDirty = TRUE /\ surface = EmptySurface /\ lastCalls = <<>> /\ lastPass = "none"
  /\ lastResolved = <<>>
  /\ renders = 0

\* Both components mounted on one layer, with a canvas that has a 2D context.
InitDraw ==
  /\ (InitDrawBand \/ InitDrawPoint \/ InitDrawPath)
  /\ hasContext = TRUE
  /\ InitEffects
  /\ IdleOthers

NextDraw == SvgEffectStart \/ SvgEffectNext \/ SvgEffectCommit \/ CanvasEffect

SpecDraw == InitDraw /\ [][NextDraw]_vars

(***************************************************************************)
(* Re-rendering: the host replaces the layer's data or its other fields    *)
(* once the effects of the previous change have run.  renders counts these *)
(* changes, up to MaxRenders.                                              *)
(***************************************************************************)
RenderTables(maxRows) ==
  UNION {{Table(n, [x |-> xs, color |-> [i \in 1..n |-> Str(1 + (i % 2))]]) :
            xs \in [1..n -> {F(0), NaN}]} : n \in 0..maxRows}

RenderKinds ==
  {<<pr, st>> : pr \in {"rect", "point", "rule", "line", "area"},
                st \in {StyleEncoded, StyleOutlined}}

EffectsDone == svgPc = "idle" /\ ~ svgDirty /\ ~ canvasDirty

SetData ==
  /\ EffectsDone
  /\ \E t \in RenderTables(MaxDrawRows) : props' = [props EXCEPT !.layer.data = t]
  /\ svgDirty' = TRUE /\ canvasDirty' = TRUE
  /\ renders' = IF renders < MaxRenders THEN renders + 1 ELSE renders
  /\ UNCHANGED <<hasContext, svgPc, svgIter, frag, container, surface, lastCalls, lastPass,
                 lastResolved, bandVars, lineVars, styleVars, utilVars>>

SetLayer ==
  /\ EffectsDone
  /\ \E k \in RenderKinds : props' = [props EXCEPT !.layer.primitive = k[1], !.layer.style = k[2]]
  /\ svgDirty' = TRUE /\ canvasDirty' = TRUE
  /\ renders' = IF renders < MaxRenders THEN renders + 1 ELSE renders
  /\ UNCHANGED <<hasContext, svgPc, svgIter, frag, container, surface, lastCalls, lastPass,
                 lastResolved, bandVars, lineVars, styleVars, utilVars>>

InitRender ==
  /\ props \in {Props(Layer(k[1], t, k[2], NoDimension, NoDimension, -1, "absent")) :
                  k \in RenderKinds, t \in RenderTables(MaxDrawRows)}
  /\ hasContext \in BOOLEAN
  /\ InitEffects
  /\ IdleOthers

NextRender == SvgEffectStart \/ SvgEffectNext \/ SvgEffectCommit \/ CanvasEffect \/ SetData \/ SetLayer

SpecRender == InitRender /\ [][NextRender]_vars

(***************************************************************************)
(* packages/viewer/src/charts/basic/sortItems.ts.  An item is [x, total,   *)
(* selected]; sortBy and sortOrder are "undefined" when not given.         *)
(* sortArray is the caller's array, sortIn the arguments of the call.      *)
(***************************************************************************)
\* Array.prototype.slice(start, end): a negative index counts from the end.
JsSlice(a, start, end) ==
  LET from == IF start < 0 THEN (IF Len(a) + start < 0 THEN 0 ELSE Len(a) + start)
              ELSE IF start > Len(a) THEN Len(a) ELSE start
      to == IF end < 0 THEN (IF Len(a) + end < 0 THEN 0 ELSE Len(a) + end)
            ELSE IF end > Len(a) THEN Len(a) ELSE end
  IN  SubSeq(a, from + 1, to)

\* (a, b) => { let diff = a[sortField] - b[sortField]; return order === "asc" ? diff : -diff; }
ItemCompare(a, b, sortField, order) ==
  IF order = "asc" THEN a[sortField] - b[sortField] ELSE 0 - (a[sortField] - b[sortField])

\* Array.prototype.sort with that comparator: stable.
RECURSIVE ItemInsert(_, _, _, _)
ItemInsert(sorted, e, sortField, order) ==
  IF sorted = <<>> THEN <<e>>
  ELSE IF ItemCompare(e, Head(sorted), sortField, order) < 0 THEN <<e>> \o sorted
  ELSE <<Head(sorted)>> \o ItemInsert(Tail(sorted), e, sortField, order)

RECURSIVE ItemSort(_, _, _)
ItemSort(a, sortField, order) ==
  IF a = <<>> THEN <<>>
  ELSE ItemInsert(ItemSort(SubSeq(a, 1, Len(a) - 1), sortField, order), a[Len(a)],
                  sortField, order)

\* The bug of sorting the special items with the others.
sortItemsAll(items, firstSpecialIndex, sortBy, sortOrder) ==
  ItemSort(items, IF sortBy = "undefined" THEN "total" ELSE sortBy,
           IF sortOrder = "undefined" THEN "desc" ELSE sortOrder)

sortItems(items, firstSpecialIndex, sortBy, sortOrder) ==
  LET splitIndex == IF firstSpecialIndex = -1 THEN Len(items) ELSE firstSpecialIndex
      regularItems == JsSlice(items, 0, splitIndex)
      specialItems == JsSlice(items, splitIndex, Len(items))
      sortField == IF sortBy = "undefined" THEN "total" ELSE sortBy
      order == IF sortOrder = "undefined" THEN "desc" ELSE sortOrder
  IN  ItemSort(regularItems, sortField, order) \o specialItems

\* Items with distinct names, any index from -1 to one past the end.
InitSort ==
  /\ \E n \in 0..MaxItems :
       \E t \in [1..n -> 1..2], c \in [1..n -> 1..2], fsi \in -1..(n + 1),
          sb \in {"undefined", "total", "selected"}, so \in {"undefined", "asc", "desc"} :
         /\ sortArray = [i \in 1..n |-> [x |-> i, total |-> t[i], selected |-> c[i]]]
         /\ sortIn = [items |-> sortArray, firstSpecialIndex |-> fsi, sortBy |-> sb, sortOrder |-> so]
  /\ sortOut = <<>>
  /\ sortPc = "call"
  /\ IdleBand /\ IdleLine /\ IdleRender /\ IdleStyle /\ IdleBase64 /\ IdleAsync /\ IdleSocket

\* sortItems(items, firstSpecialIndex, sortBy, sortOrder): it sorts copies
\* that slice() makes and assigns to nothing of the array it is given.
SortItemsCall ==
  /\ sortPc = "call"
  /\ sortOut' = sortItems(sortArray, sortIn.firstSpecialIndex, sortIn.sortBy, sortIn.sortOrder)
  /\ sortPc' = "done"
  /\ UNCHANGED <<sortIn, sortArray, bandVars, lineVars, renderVars, styleVars, b64Vars, asyncVars, rws>>

NextSort == SortItemsCall

SpecSort == InitSort /\ [][NextSort]_vars

(***************************************************************************)
(* packages/utils/src/compression.ts: base64Encode and base64Decode.  A    *)
(* byte array is a sequence of 0..255 and a string a sequence of its       *)
(* characters; the binary string of a byte array is the byte array.  btoa  *)
(* and atob are the platform's: atob is forgiving about missing padding    *)
(* and throws an InvalidCharacterError for a character outside the         *)
(* alphabet or a length of 4k + 1.  A call's outcome is a record: whether  *)
(* it threw, and the value it returned.                                    *)
(***************************************************************************)
Base64Alphabet ==
  <<"A", "B", "C", "D", "E", "F", "G", "H", "I", "J", "K", "L", "M", "N", "O", "P",
    "Q", "R", "S", "T", "U", "V", "W", "X", "Y", "Z", "a", "b", "c", "d", "e", "f",
    "g", "h", "i", "j", "k", "l", "m", "n", "o", "p", "q", "r", "s", "t", "u", "v",
    "w", "x", "y", "z", "0", "1", "2", "3", "4", "5", "6", "7", "8", "9", "+", "/">>

SextetOf(c) == (CHOOSE i \in 1..64 : Base64Alphabet[i] = c) - 1

RECURSIVE btoa(_)
btoa(bytes) ==
  IF Len(bytes) >= 3
  THEN LET n == bytes[1] * 65536 + bytes[2] * 256 + bytes[3]
       IN  <<Base64Alphabet[(n \div 262144) + 1], Base64Alphabet[((n \div 4096) % 64) + 1],
             Base64Alphabet[((n \div 64) % 64) + 1], Base64Alphabet[(n % 64) + 1]>>
           \o btoa(SubSeq(bytes, 4, Len(bytes)))
  ELSE IF Len(bytes) = 2
  THEN LET n == (bytes[1] * 256 + bytes[2]) * 4
       IN  <<Base64Alphabet[(n \div 4096) + 1], Base64Alphabet[((n \div 64) % 64) + 1],
             Base64Alphabet[(n % 64) + 1], "=">>
  ELSE IF Len(bytes) = 1
  THEN <<Base64Alphabet[((bytes[1] * 16) \div 64) + 1], Base64Alphabet[((bytes[1] * 16) % 64) + 1],
         "=", "=">>
  ELSE <<>>

RECURSIVE DecodeSextets(_)
DecodeSextets(q) ==
  IF Len(q) >= 4
  THEN LET n == q[1] * 262144 + q[2] * 4096 + q[3] * 64 + q[4]
       IN  <<n \div 65536, (n \div 256) % 256, n % 256>> \o DecodeSextets(SubSeq(q, 5, Len(q)))
  ELSE IF Len(q) = 3
  THEN LET n == q[1] * 4096 + q[2] * 64 + q[3]
       IN  <<n \div 1024, (n \div 4) % 256>>
  ELSE IF Len(q) = 2 THEN <<(q[1] * 64 + q[2]) \div 16>>
  ELSE <<>>

atob(str) ==
  LET n == Len(str)
      data == IF n % 4 = 0 /\ n >= 2 /\ str[n] = "=" /\ str[n - 1] = "=" THEN SubSeq(str, 1, n - 2)
              ELSE IF n % 4 = 0 /\ n >= 1 /\ str[n] = "=" THEN SubSeq(str, 1, n - 1)
              ELSE str
  IN  IF Len(data) % 4 = 1 \/ \E j \in DOMAIN data : \A i \in 1..64 : Base64Alphabet[i] # data[j]
      THEN [threw |-> TRUE, value |-> <<>>]
      ELSE [threw |-> FALSE, value |-> DecodeSextets([j \in DOMAIN data |-> SextetOf(data[j])])]

\* str.replace(/=+$/, "")
RECURSIVE StripPadding(_)
StripPadding(str) ==
  IF str # <<>> /\ str[Len(str)] = "=" THEN StripPadding(SubSeq(str, 1, Len(str) - 1)) ELSE str

toUrlSafeBase64(str) ==
  StripPadding([j \in DOMAIN str |-> IF str[j] = "+" THEN "-" ELSE IF str[j] = "/" THEN "_" ELSE str[j]])

\* The bug of leaving the "_" of the URL-safe alphabet as it is.
toStandardBase64KeepsUnderscore(str) ==
  LET out == [j \in DOMAIN str |-> IF str[j] = "-" THEN "+" ELSE str[j]]
      pad == Len(out) % 4
  IN  IF pad = 2 THEN out \o <<"=", "=">>
      ELSE IF pad = 3 THEN out \o <<"=">>
      ELSE IF pad = 1 THEN out \o <<"=", "=", "=">>
      ELSE out

toStandardBase64(str) ==
  LET out == [j \in DOMAIN str |-> IF str[j] = "-" THEN "+" ELSE IF str[j] = "_" THEN "/" ELSE str[j]]
      pad == Len(out) % 4
  IN  IF pad = 2 THEN out \o <<"=", "=">>
      ELSE IF pad = 3 THEN out \o <<"=">>
      ELSE IF pad = 1 THEN out \o <<"=", "=", "=">>
      ELSE out

\* The chunks of 0x8000 bytes are joined into one binary string before btoa.
base64Encode(bytes) == toUrlSafeBase64(btoa(bytes))

base64Decode(base64) == atob(toStandardBase64(base64))

\* Bytes whose sextets reach both ends of the alphabet and its two last characters.
ByteSample == {0, 65, 251, 255}

\* Arrays of up to MaxBytes sample bytes, and every byte value at every
\* place of a group of three.
InitBase64 ==
  /\ \/ \E n \in 0..MaxBytes : b64Bytes \in [1..n -> ByteSample]
     \/ \E b \in 0..255, n \in 1..3, k \in 1..3 :
          k <= n /\ b64Bytes = [i \in 1..n |-> IF i = k THEN b ELSE 255]
  /\ b64Text = <<>>
  /\ b64Decoded = [threw |-> FALSE, value |-> <<>>]
  /\ b64Pc = "encode"
  /\ IdleBand /\ IdleLine /\ IdleRender /\ IdleStyle /\ IdleSort /\ IdleAsync /\ IdleSocket

Base64EncodeCall ==
  /\ b64Pc = "encode"
  /\ b64Text' = base64Encode(b64Bytes)
  /\ b64Pc' = "decode"
  /\ UNCHANGED <<b64Bytes, b64Decoded, bandVars, lineVars, renderVars, styleVars, sortVars, asyncVars, rws>>

Base64DecodeCall ==
  /\ b64Pc = "decode"
  /\ b64Decoded' = base64Decode(b64Text)
  /\ b64Pc' = "done"
  /\ UNCHANGED <<b64Bytes, b64Text, bandVars, lineVars, renderVars, styleVars, sortVars, asyncVars, rws>>

NextBase64 == Base64EncodeCall \/ Base64DecodeCall

SpecBase64 == InitBase64 /\ [][NextBase64]_vars

(***************************************************************************)
(* latestAsync (src/unnamed/part_010).  promises[id] is the promise        *)
(* asyncFn returned to invocation id: its state, its value or reason, and  *)
(* whether its then/catch reactions have run.  chain is the state of the   *)
(* promise that .then(...).catch(...) returns.  onResultCalls and          *)
(* consoleErrors record the calls of onResult and console.error.           *)
(***************************************************************************)
AsyncResults == {"r1", "r2"}

\* The bug of passing every result on.
IsLatestInvocationAlways(id, latest) == TRUE

\* id === latestId
IsLatestInvocation(id, latest) == id = latest

InitAsync ==
  /\ latestId = 0
  /\ promises = <<>>
  /\ onResultCalls = <<>>
  /\ consoleErrors = <<>>
  /\ IdleBand /\ IdleLine /\ IdleRender /\ IdleStyle /\ IdleSort /\ IdleBase64 /\ IdleSocket

\* The wrapper is called: const id = ++latestId; asyncFn(...args) returns a
\* pending promise and the reactions are attached.
AsyncInvoke ==
  /\ latestId < MaxCalls
  /\ latestId' = latestId + 1
  /\ promises' = Append(promises, [state |-> "pending", value |-> "none", reacted |-> FALSE,
                                    chain |-> "pending"])
  /\ UNCHANGED <<onResultCalls, consoleErrors, bandVars, lineVars, renderVars, styleVars, sortVars,
                 b64Vars, rws>>

\* The promise of invocation id fulfils with some result.
AsyncResolve(id) ==
  /\ promises[id].state = "pending"
  /\ \E r \in AsyncResults : promises' = [promises EXCEPT ![id].state = "fulfilled", ![id].value = r]
  /\ UNCHANGED <<latestId, onResultCalls, consoleErrors, bandVars, lineVars, renderVars, styleVars,
                 sortVars, b64Vars, rws>>

\* The promise of invocation id rejects.
AsyncReject(id) ==
  /\ promises[id].state = "pending"
  /\ promises' = [promises EXCEPT ![id].state = "rejected", ![id].value = "error"]
  /\ UNCHANGED <<latestId, onResultCalls, consoleErrors, bandVars, lineVars, renderVars, styleVars,
                 sortVars, b64Vars, rws>>

\* The reactions of a settled promise run: the then callback for a
\* fulfilled one, the catch callback for a rejected one.
AsyncReact(id) ==
  /\ promises[id].state # "pending"
  /\ ~promises[id].reacted
  /\ promises' = [promises EXCEPT ![id].reacted = TRUE, ![id].chain = "fulfilled"]
  /\ IF promises[id].state = "fulfilled"
     THEN /\ onResultCalls' = IF IsLatestInvocation(id, latestId)
                               THEN Append(onResultCalls, [id |-> id, result |-> promises[id].value])
                               ELSE onResultCalls
          /\ UNCHANGED consoleErrors
     ELSE /\ consoleErrors' = Append(consoleErrors, promises[id].value)
          /\ UNCHANGED onResultCalls
  /\ UNCHANGED <<latestId, bandVars, lineVars, renderVars, styleVars, sortVars, b64Vars, rws>>

NextAsync ==
  \/ AsyncInvoke
  \/ \E id \in DOMAIN promises : AsyncResolve(id)
  \/ \E id \in DOMAIN promises : AsyncReject(id)
  \/ \E id \in DOMAIN promises : AsyncReact(id)

SpecAsync == InitAsync /\ [][NextAsync]_vars

(***************************************************************************)
(* ReconnectingWebSocket (src/unnamed/part_015).  rws is the object with   *)
(* its fields, together with what surrounds it: sockets, the ready state   *)
(* of every WebSocket created so far (ws is an index into it, 0 for null), *)
(* endpointOk, whether new WebSocket(endpoint) succeeds, and status, the   *)
(* calls of onStatus.  closeCalled and socketsAtClose remember whether     *)
(* close() was called and how many sockets there were at its first call.   *)
(* Handlers run to completion; the onStatus callback is the caller's code  *)
(* and may itself call close().                                            *)
(***************************************************************************)
\* close()
rwsClose(o) ==
  [o EXCEPT !.shouldReconnect = FALSE,
            !.reconnectTimeoutId = "null",
            !.sockets = [j \in DOMAIN o.sockets |->
                           IF j = o.ws /\ o.sockets[j] \in {"CONNECTING", "OPEN"}
                           THEN "CLOSING" ELSE o.sockets[j]],
            !.status = Append(@, "closed"),
            !.closeCalled = TRUE,
            !.socketsAtClose = IF o.closeCalled THEN @ ELSE Len(o.sockets)]

\* onStatus(value), whose handler calls close() when reenter is true.
rwsOnStatus(o, value, reenter) ==
  LET told == [o EXCEPT !.status = Append(@, value)]
  IN  IF reenter THEN rwsClose(told) ELSE told

\* scheduleReconnect()
rwsScheduleReconnect(o) ==
  [o EXCEPT !.reconnectAttempts = @ + 1, !.reconnectTimeoutId = "set"]

\* connect(), with the guard on shouldReconnect read again after onStatus.
rwsConnectGuarded(o, reenter) ==
  IF ~o.shouldReconnect THEN o
  ELSE LET told == rwsOnStatus(o, "connecting", reenter)
       IN  IF ~told.shouldReconnect THEN told
           ELSE IF told.endpointOk
           THEN [told EXCEPT !.sockets = Append(@, "CONNECTING"), !.ws = Len(told.sockets) + 1]
           ELSE IF told.reconnectAttempts < told.maxReconnectAttempts
           THEN rwsScheduleReconnect(told)
           ELSE rwsOnStatus(told, "error", FALSE)

\* connect()
rwsConnect(o, reenter) ==
  IF ~o.shouldReconnect THEN o
  ELSE LET told == rwsOnStatus(o, "connecting", reenter)
       IN  IF told.endpointOk
           THEN [told EXCEPT !.sockets = Append(@, "CONNECTING"), !.ws = Len(told.sockets) + 1]
           ELSE IF told.shouldReconnect /\ told.reconnectAttempts < told.maxReconnectAttempts
           THEN rwsScheduleReconnect(told)
           ELSE rwsOnStatus(told, "error", FALSE)

\* The object after new ReconnectingWebSocket(endpoint, options): the
\* constructor has called connect().
InitSocket ==
  /\ \E ok \in BOOLEAN, m \in 0..MaxReconnectAttempts :
       rws = rwsConnect([ws |-> 0, shouldReconnect |-> TRUE, reconnectAttempts |-> 0,
                         maxReconnectAttempts |-> m, reconnectTimeoutId |-> "null",
                         sockets |-> <<>>, endpointOk |-> ok, status |-> <<>>,
                         closeCalled |-> FALSE, socketsAtClose |-> 0], FALSE)
  /\ IdleBand /\ IdleLine /\ IdleRender /\ IdleStyle /\ IdleSort /\ IdleBase64 /\ IdleAsync

othersThanSocket == <<bandVars, lineVars, renderVars, styleVars, sortVars, b64Vars, asyncVars>>

\* ws.onopen
SocketOpen ==
  /\ rws.ws # 0 /\ rws.sockets[rws.ws] = "CONNECTING"
  /\ \E reenter \in BOOLEAN :
       rws' = rwsOnStatus([rws EXCEPT !.sockets[rws.ws] = "OPEN", !.reconnectAttempts = 0],
                          "connected", reenter)
  /\ UNCHANGED othersThanSocket

\* ws.onclose of socket j: the connection failed, was lost, or was closed.
SocketClosed(j) ==
  /\ rws.sockets[j] # "CLOSED"
  /\ LET gone == [rws EXCEPT !.sockets[j] = "CLOSED", !.ws = 0]
     IN  rws' = IF gone.shouldReconnect /\ gone.reconnectAttempts < gone.maxReconnectAttempts
                THEN rwsScheduleReconnect(gone)
                ELSE IF gone.reconnectAttempts >= gone.maxReconnectAttempts
                THEN rwsOnStatus(gone, "error", FALSE)
                ELSE gone
  /\ UNCHANGED othersThanSocket

\* The callback of the reconnect timer.
TimerFires ==
  /\ rws.reconnectTimeoutId = "set"
  /\ Len(rws.sockets) < MaxSockets /\ Len(rws.status) < 4 * MaxSockets
  /\ \E reenter \in BOOLEAN :
       rws' = rwsConnect([rws EXCEPT !.reconnectTimeoutId = "null"], reenter)
  /\ UNCHANGED othersThanSocket

\* close(), called between two events.
SocketCloseCall ==
  /\ Len(rws.status) < 4 * MaxSockets
  /\ rws' = rwsClose(rws)
  /\ UNCHANGED othersThanSocket

NextSocket ==
  \/ SocketOpen
  \/ \E j \in DOMAIN rws.sockets : SocketClosed(j)
  \/ TimerFires
  \/ SocketCloseCall

SpecSocket == InitSocket /\ [][NextSocket]_vars

(***************************************************************************)
(* Properties of the band resolver.                                        *)
(***************************************************************************)
\* The rows' intervals before any dimension is applied.
UnmodifiedBand == resolveBand(bandIn.rctx, bandIn.axis, NoDimension)

\* Cases 1 and 2 of resolveBand: the interval comes from the table's columns.
BandFromColumns ==
  /\ HasScale(bandIn.rctx.proxy, bandIn.axis)
  /\ \/ HasColumn(bandIn.rctx.data, bandIn.axis)
     \/ /\ HasColumn(bandIn.rctx.data, Axis1(bandIn.axis))
        /\ HasColumn(bandIn.rctx.data, Axis2(bandIn.axis))

FixedWidthCentred(i) ==
  /\ NSub(bandOut[i][2], bandOut[i][1]) = F(bandIn.dimension.a)
  /\ NAdd(bandOut[i][1], bandOut[i][2]) = NAdd(UnmodifiedBand[i][1], UnmodifiedBand[i][2])

\* C7 as stated: for a numeric dimension d every interval resolveBand returns
\* has width exactly d and the midpoint of the row's unmodified interval.
C7_EveryIntervalFixedWidth ==
  (bandPc = "done" /\ bandIn.dimension.kind = "number")
    => \A i \in DOMAIN bandOut : FixedWidthCentred(i)

\* C7 amended: for a numeric dimension d, every row whose interval comes from
\* the table's columns through the scale (cases 1 and 2) and whose unmodified
\* endpoints are both finite gets an interval of width exactly d around the
\* midpoint of the unmodified interval, in either order of the endpoints.
C7_FixedWidthOnFiniteColumnBands ==
  (bandPc = "done" /\ bandIn.dimension.kind = "number" /\ BandFromColumns)
    => \A i \in DOMAIN bandOut :
         (isFinite(UnmodifiedBand[i][1]) /\ isFinite(UnmodifiedBand[i][2]))
           => FixedWidthCentred(i)

\* A numeric dimension applied to a finite interval whose endpoints run downwards.
C7_Witness ==
  /\ bandPc = "done" /\ bandIn.dimension.kind = "number" /\ BandFromColumns
  /\ \E i \in DOMAIN bandOut :
       /\ isFinite(UnmodifiedBand[i][1]) /\ isFinite(UnmodifiedBand[i][2])
       /\ NLt(UnmodifiedBand[i][2], UnmodifiedBand[i][1])
       /\ bandOut[i] # UnmodifiedBand[i]

BandWidth(v) == NAbs(NSub(v[1], v[2]))

\* C8: for {gap, clampToRatio: r}, a raw interval of width w comes back with
\* width exactly w - 2 * min(gap / 2, r * w / 2), never less than (1 - r) * w;
\* an absent clampToRatio counts as 0.
C8_GapShrinkExactAndClamped ==
  (bandPc = "done" /\ bandIn.dimension.kind = "gap" /\ BandFromColumns)
    => \A i \in DOMAIN bandOut :
         LET w == BandWidth(UnmodifiedBand[i])
             r2 == IF bandIn.dimension.b < 0 THEN 0 ELSE bandIn.dimension.b
             shrink == NScale(NMin(F(bandIn.dimension.a \div 2), NScale(w, r2, 4)), 2, 1)
         IN  /\ BandWidth(bandOut[i]) = NSub(w, shrink)
             /\ ~ NLt(BandWidth(bandOut[i]), NScale(w, 2 - r2, 2))

\* A gap dimension whose clamp binds on a finite interval of positive width.
C8_Witness ==
  /\ bandPc = "done" /\ bandIn.dimension.kind = "gap" /\ BandFromColumns
  /\ bandIn.dimension.b > 0
  /\ \E i \in DOMAIN bandOut :
       /\ isFinite(UnmodifiedBand[i][1]) /\ isFinite(UnmodifiedBand[i][2])
       /\ NLt(F(0), BandWidth(UnmodifiedBand[i]))
       /\ NLt(NScale(BandWidth(UnmodifiedBand[i]), bandIn.dimension.b, 4), F(bandIn.dimension.a \div 2))
       /\ NLt(F(0), BandWidth(bandOut[i]))

(***************************************************************************)
(* Properties of lineData, linePath and areaPath.                          *)
(***************************************************************************)
Range(q) == {q[j] : j \in DOMAIN q}

LineRows == 0..(lineIn.rctx.data.length - 1)

\* The places (group, position) of lineGroups that hold row i.
PlacesOf(i) ==
  {pl \in (DOMAIN lineGroups) \X (1..lineIn.rctx.data.length) :
     pl[2] \in DOMAIN lineGroups[pl[1]] /\ lineGroups[pl[1]][pl[2]] = i}

SameNonPositional(i, j) ==
  \A c \in DOMAIN lineIn.rctx.data.columns :
    IsGroupKey(c) => lineIn.rctx.data.columns[c][i + 1] = lineIn.rctx.data.columns[c][j + 1]

\* C9: lineData partitions the rows: every row index is in exactly one group,
\* exactly once, no group is empty, and rows that agree on every column other
\* than x and y are in the same group.
C9_LineDataPartitions ==
  linePc = "path" =>
    /\ \A i \in LineRows : Cardinality(PlacesOf(i)) = 1
    /\ \A g \in DOMAIN lineGroups :
         lineGroups[g] # <<>> /\ Range(lineGroups[g]) \subseteq LineRows
    /\ \A i, j \in LineRows :
         SameNonPositional(i, j) => \E g \in DOMAIN lineGroups : {i, j} \subseteq Range(lineGroups[g])

\* Two groups, one of them with two rows that differ in x.
C9_Witness ==
  /\ linePc = "path" /\ Len(lineGroups) >= 2
  /\ HasColumn(lineIn.rctx.data, "x")
  /\ \E g \in DOMAIN lineGroups : Len(lineGroups[g]) >= 2

\* Whether every coordinate the builder needs of row i is finite.
RowFinite(i) ==
  IF lineIn.layer.primitive = "line"
  THEN /\ isFinite(at(resolvePoint(lineIn.rctx, "x"), i))
       /\ isFinite(at(resolvePoint(lineIn.rctx, "y"), i))
  ELSE LET vertical == Orientation(lineIn.layer) = "vertical"
           b == at(resolveBand(lineIn.rctx, IF vertical THEN "y" ELSE "x", NoDimension), i)
       IN  /\ isFinite(at(resolvePoint(lineIn.rctx, IF vertical THEN "x" ELSE "y"), i))
           /\ isFinite(b[1]) /\ isFinite(b[2])

\* C10: every point linePath and areaPath pass to the curve has finite
\* coordinates, and every index of the group whose coordinates are all finite
\* is passed on.
C10_OnlyAndAllFinitePoints ==
  \A g \in DOMAIN linePaths :
    /\ \A j \in DOMAIN linePaths[g].points :
         LET pt == linePaths[g].points[j]
         IN  isFinite(pt.p) /\ isFinite(pt.b0) /\ isFinite(pt.b1) /\ pt.i \in Range(lineGroups[g])
    /\ \A i \in Range(lineGroups[g]) :
         RowFinite(i) => \E j \in DOMAIN linePaths[g].points : linePaths[g].points[j].i = i

\* An area group of two rows of which one is passed on and one is dropped.
C10_Witness ==
  /\ lineIn.layer.primitive = "area"
  /\ \E g \in DOMAIN linePaths :
       Len(lineGroups[g]) = 2 /\ Len(linePaths[g].points) = 1

(***************************************************************************)
(* Properties of the path builders.                                        *)
(***************************************************************************)
KnownInterpolates ==
  {"linear", "basis", "natural", "step", "step-before", "step-after", "catmull-rom",
   "cardinal", "monotone"}

\* C21: for an interpolate name that is not one of linear, basis, natural,
\* step, step-before, step-after, catmull-rom, cardinal, monotone, every call
\* of linePath or areaPath writes one diagnostic naming it and builds, with
\* the linear curve, the path it builds for linear; for a known name it
\* writes nothing.
C21_UnknownInterpolateIsLinear ==
  linePc = "path" =>
    IF lineIn.layer.interpolate \in KnownInterpolates
    THEN warnings = <<>>
    ELSE /\ warnings = [g \in DOMAIN linePaths |-> "Unknown interpolate: " \o lineIn.layer.interpolate]
         /\ \A g \in DOMAIN linePaths :
              /\ linePaths[g].curve = "curveLinear"
              /\ linePaths[g] = PathOf(lineIn.rctx, lineGroups[g],
                                       [lineIn.layer EXCEPT !.interpolate = "linear"])

\* Two groups drawn with the unknown name, one of them with two points.
C21_Witness ==
  /\ linePc = "path" /\ lineIn.layer.interpolate = "wavy"
  /\ Len(linePaths) = 2 /\ Len(warnings) = 2
  /\ \E g \in 1..2 : Len(linePaths[g].points) >= 1 /\ linePaths[g].curve = "curveLinear"

C26_PointsSortedPermutation ==
  \A g \in DOMAIN linePaths :
    LET pts == linePaths[g].points
        key == PathSortKey(lineIn.rctx, lineIn.layer)
    IN  /\ \A j \in DOMAIN pts : pts[j].p = at(key, pts[j].i) /\ isFinite(pts[j].p)
        /\ \A j \in 1..(Len(pts) - 1) : pts[j].p.v <= pts[j + 1].p.v
        /\ {pts[j].i : j \in DOMAIN pts} = {i \in Range(lineGroups[g]) : RowFinite(i)}
        /\ \A j, k \in DOMAIN pts : pts[j].i = pts[k].i => j = k

\* A horizontal area whose two rows are passed on in the other order, by y.
C26_Witness ==
  /\ lineIn.layer.primitive = "area" /\ lineIn.layer.orientation = "horizontal"
  /\ \E g \in DOMAIN linePaths :
       /\ lineGroups[g] = <<0, 1>>
       /\ [j \in DOMAIN linePaths[g].points |-> linePaths[g].points[j].i] = <<1, 0>>
       /\ linePaths[g].points[1].p.v < linePaths[g].points[2].p.v

\* C29: the groups of lineData are homogeneous: two rows of one group have
\* identical values in every column other than x and y, so rows that differ
\* in such a value, be it only by null, NaN or an infinite number, are never
\* in one group.
C29_GroupsHomogeneous ==
  linePc = "path" =>
    \A g \in DOMAIN lineGroups :
      \A i, j \in Range(lineGroups[g]) : SameNonPositional(i, j)

\* Values that JSON.stringify prints as null.
PrintsAsNull(c) == c.k \in {"null", "nan", "inf"}

\* C29 as the key allows it: two rows of one group have, in every column
\* other than x and y, identical values or two values among null, NaN and
\* the infinite numbers, which all serialize as null.
C29_GroupsHomogeneousUpToNull ==
  linePc = "path" =>
    \A g \in DOMAIN lineGroups :
      \A i, j \in Range(lineGroups[g]) :
        \A c \in DOMAIN lineIn.rctx.data.columns :
          IsGroupKey(c) =>
            LET a == lineIn.rctx.data.columns[c][i + 1]
                b == lineIn.rctx.data.columns[c][j + 1]
            IN  a = b \/ (PrintsAsNull(a) /\ PrintsAsNull(b))

\* Rows whose colours are null, NaN and Infinity in one group, apart from a
\* row with a string.
C29_Witness ==
  /\ linePc = "path" /\ lineIn.rctx.data.length = 3
  /\ HasColumn(lineIn.rctx.data, "color") /\ HasColumn(lineIn.rctx.data, "size")
  /\ lineIn.rctx.data.columns["color"] = <<Null, Str(1), NaN>>
  /\ lineIn.rctx.data.columns["size"] = <<F(0), F(0), F(0)>>
  /\ lineGroups = <<(<<0, 2>>), (<<1>>)>>

(***************************************************************************)
(* Properties of the two renderers.                                        *)
(***************************************************************************)
RECURSIVE Ascending(_)
Ascending(S) ==
  IF S = {} THEN <<>>
  ELSE LET m == CHOOSE a \in S : \A b \in S : a <= b
       IN  <<m>> \o Ascending(S \ {m})

\* The primitives in the container: what each element is, the row it stands for,
\* its geometry attributes and the path of a <path>.
SvgGeometry(children) ==
  [j \in DOMAIN children |->
     [kind |-> children[j].tag, row |-> children[j].row, n |-> children[j].n,
      path |-> children[j].path]]

\* The calls that put geometry on the context's current path; d3 makes no call
\* for a path without points.
PlacesGeometry(c) ==
  c.op \in {"rect", "arc", "lineTo"} \/ (c.op = "d3path" /\ c.path.points # <<>>)

\* The row of the style.draw call that paints the geometry placed by call j.
PaintedFor(calls, j) ==
  LET m == CHOOSE a \in j..Len(calls) :
             /\ calls[a].op = "style.draw"
             /\ \A b \in j..(a - 1) : calls[b].op # "style.draw"
  IN  calls[m].i

CanvasGeometry(calls) ==
  LET at_ == Ascending({j \in DOMAIN calls : PlacesGeometry(calls[j])})
  IN  [q \in DOMAIN at_ |->
         LET j == at_[q]
             c == calls[j]
         IN  [kind |-> CASE c.op = "rect" -> "rect"
                         [] c.op = "arc" -> "circle"
                         [] c.op = "lineTo" -> "line"
                         [] OTHER -> "path",
              row |-> PaintedFor(calls, j),
              n |-> IF c.op = "lineTo" THEN calls[j - 1].n \o c.n ELSE c.n,
              path |-> c.path]]

\* C1: once both renderers have rendered the same context and layer, the
\* primitives in the SVG container and the geometry put on the canvas are the
\* same, in the same order: the same rows with the same rect origin and size,
\* circle centre and radius, or segment endpoints, and the same groups with the
\* same ordered points for line and area.
C1_RenderersPlaceSameGeometry ==
  EffectsDone /\ lastPass = "drawn" => SvgGeometry(container) = CanvasGeometry(lastCalls)

C1_Witness ==
  /\ EffectsDone /\ lastPass = "drawn"
  /\ props.layer.primitive = "rect"
  /\ Len(container) = 2
  /\ \E j \in 1..2 : container[j].n[2] # resolveBand(Rctx(props), "y", props.layer.yDimension)[j][1]

\* The rows of a rect, point or rule layer whose required values are all finite.
RequiredFinite(p, i) ==
  IF p.layer.primitive = "point"
  THEN /\ isFinite(at(resolvePoint(Rctx(p), "x"), i))
       /\ isFinite(at(resolvePoint(Rctx(p), "y"), i))
       /\ isFinite(at(resolveSize(Rctx(p), p.layer.pointSize), i))
  ELSE /\ \A e \in 1..2 : isFinite(at(resolveBand(Rctx(p), "x", p.layer.xDimension), i)[e])
       /\ \A e \in 1..2 : isFinite(at(resolveBand(Rctx(p), "y", p.layer.yDimension), i)[e])

RowsDrawn(calls) ==
  LET marks == Ascending({j \in DOMAIN calls : calls[j].op = "style.draw"})
  IN  [q \in DOMAIN marks |-> calls[marks[q]].i]

\* C2: for a rect, point or rule layer, each renderer emits exactly the rows
\* whose required values are all finite, each once and in row order; the rows
\* with a non-finite value are left out and the others are all there.
C2_EmitsExactlyFiniteRows ==
  EffectsDone /\ lastPass = "drawn" /\ props.layer.primitive \in {"rect", "point", "rule"} =>
    LET expected == Ascending({i \in 0..(props.layer.data.length - 1) : RequiredFinite(props, i)})
    IN  /\ [j \in DOMAIN container |-> container[j].row] = expected
        /\ RowsDrawn(lastCalls) = expected

C2_Witness ==
  /\ EffectsDone /\ lastPass = "drawn"
  /\ props.layer.primitive = "point"
  /\ props.layer.data.length = 2
  /\ ~ isFinite(at(resolveSize(Rctx(props), props.layer.pointSize), 0))
  /\ [j \in DOMAIN container |-> container[j].row] = <<1>>
  /\ RowsDrawn(lastCalls) = <<1>>


\* C3: whatever was rendered before, once the retained-mode effect has run the
\* container holds exactly the elements of the current context and layer, and
\* once the immediate-mode effect has run the surface is what one pass over an
\* empty surface leaves; a pass that has started holds the output of the
\* iterations made so far and has its next iteration or its commit to make.
C3_RenderIdempotentAndTotal ==
  /\ (svgPc = "idle" /\ ~ svgDirty => container = createElements(Rctx(props), props.layer))
  /\ (~ canvasDirty => surface = drawCanvas(hasContext, EmptySurface, props).surface)
  /\ (svgPc = "build" =>
        /\ svgIter <= Len(svgYields(Rctx(props), props.layer))
        /\ frag = Flatten(SubSeq(svgYields(Rctx(props), props.layer), 1, svgIter)))

C3_Witness ==
  /\ renders >= 2 /\ EffectsDone /\ lastPass = "drawn"
  /\ Len(container) >= 2
  /\ Len(surface.pixels) >= 2

\* C4: the container's children change only in the step that ends a pass, and
\* then to the complete output of that pass; while the fragment is being
\* filled the container keeps the complete output of the previous pass.
C4_CommitIsAtomic ==
  [][/\ (container' # container =>
           /\ svgPc = "build" /\ svgPc' = "idle"
           /\ frag = createElements(Rctx(props), props.layer)
           /\ container' = frag)
     /\ (frag' # frag /\ svgPc' = "build" => container' = container)]_vars

C4_Witness ==
  /\ svgPc = "build"
  /\ frag # <<>>
  /\ Len(frag) < Len(createElements(Rctx(props), props.layer))
  /\ container # <<>>
  /\ renders >= 1

IdentityTransform == [s |-> 1, tx |-> 0, ty |-> 0]

\* C5: a pass that has a context starts with reset, clearRect over the whole
\* canvas, scale by the pixel ratio and translate by the margin, in this order
\* and before any other call; what the surface shows and the state of its
\* context are those of this pass's calls on an empty surface, and every shape
\* painted is under the scale followed by the translation.
C5_ClearedThenTransformed ==
  lastPass = "drawn" =>
    /\ Len(lastCalls) >= 4
    /\ lastCalls[1] = Call("reset", <<>>)
    /\ lastCalls[2] = Call("clearRect", <<F(0), F(0), F(CanvasWidth(props.proxy)),
                                          F(CanvasHeight(props.proxy))>>)
    /\ lastCalls[3] = Call("scale", <<F(pixelRatio), F(pixelRatio)>>)
    /\ lastCalls[4] = Call("translate", <<F(4 * margin), F(4 * margin)>>)
    /\ surface = ApplyCalls(EmptySurface, lastCalls, CanvasWidth(props.proxy),
                            CanvasHeight(props.proxy))
    /\ \A j \in DOMAIN surface.pixels : \A q \in DOMAIN surface.pixels[j].shapes :
         surface.pixels[j].shapes[q].tf =
           [s |-> pixelRatio, tx |-> pixelRatio * 4 * margin, ty |-> pixelRatio * 4 * margin]

C5_Witness ==
  /\ renders >= 1 /\ ~ canvasDirty /\ lastPass = "drawn"
  /\ Len(surface.pixels) = 1
  /\ surface.state.tf # IdentityTransform

\* C6: on a canvas without a 2D context the immediate-mode effect leaves the
\* surface as it was, makes no call on a context and runs no resolver.
C6_NoContextSkipsPass ==
  [][~ hasContext /\ canvasDirty /\ ~ canvasDirty' =>
       /\ surface' = surface
       /\ lastCalls' = <<>>
       /\ lastResolved' = <<>>
       /\ lastPass' = "skipped"]_vars

C6_Witness ==
  /\ ~ hasContext
  /\ lastPass = "skipped" /\ ~ canvasDirty
  /\ lastCalls = <<>> /\ lastResolved = <<>> /\ surface = EmptySurface
  /\ Len(draw(Rctx(props), props.layer)) > 0

(***************************************************************************)
(* Properties of the style resolvers.                                      *)
(***************************************************************************)
StyleRows == 1..styleIn.rctx.data.length

ColorMapped == HasColumn(styleIn.rctx.data, "color") /\ HasScale(styleIn.rctx.proxy, "color")

ColorCellsDiffer(i, j) ==
  /\ HasColumn(styleIn.rctx.data, "color")
  /\ styleIn.rctx.data.columns["color"][i] # styleIn.rctx.data.columns["color"][j]

\* C11 as stated: with fillColor "$encoding" the fill of every row is the
\* row's resolveColor value, and the fills of two rows differ if and only if
\* their cells of the color column differ.
C11_FillVariesIffColumnVaries ==
  stylePc = "done" /\ styleIn.style.fillColor = Encoding =>
    /\ \A i \in StyleRows : styleOut.attrs[i].fill = styleOut.color[i]
    /\ \A i, j \in StyleRows :
         styleOut.attrs[i].fill # styleOut.attrs[j].fill <=> ColorCellsDiffer(i, j)

\* C11, amended: with fillColor "$encoding" the fill of every row is the row's
\* resolveColor value; two rows have different fills only if their cells of the
\* color column differ; with a color column and a color scale the fills differ
\* exactly when the scale gives the two cells different colours, and without
\* either every row has the theme's mark colour.
C11_FillIsResolvedColor ==
  stylePc = "done" /\ styleIn.style.fillColor = Encoding =>
    /\ \A i \in StyleRows : styleOut.attrs[i].fill = styleOut.color[i]
    /\ \A i, j \in StyleRows :
         styleOut.attrs[i].fill # styleOut.attrs[j].fill => ColorCellsDiffer(i, j)
    /\ ColorMapped =>
         \A i, j \in StyleRows :
           styleOut.attrs[i].fill # styleOut.attrs[j].fill
             <=> ColorApply(styleIn.rctx.data.columns["color"][i])
                   # ColorApply(styleIn.rctx.data.columns["color"][j])
    /\ ~ ColorMapped =>
         \A i \in StyleRows : styleOut.attrs[i].fill = styleIn.rctx.theme.markColor

C11_Witness ==
  /\ stylePc = "done" /\ styleIn.style.fillColor = Encoding
  /\ ColorMapped
  /\ styleIn.rctx.data.length = 2
  /\ styleOut.attrs[1].fill # styleOut.attrs[2].fill

\* The string last assigned to the context property op by calls, "unset" when none is.
RECURSIVE LastSet(_, _)
LastSet(calls, op) ==
  IF calls = <<>> THEN "unset"
  ELSE IF calls[Len(calls)].op = op THEN calls[Len(calls)].s
  ELSE LastSet(SubSeq(calls, 1, Len(calls) - 1), op)

\* The colour the MarkStyle value is documented to resolve to for row i.
TokenColor(value, i) ==
  CASE value.kind = "absent" -> "none"
    [] value = Encoding -> styleOut.color[i]
    [] value.kind = "token" /\ value # Encoding /\ value.name \in DOMAIN styleIn.rctx.theme ->
         styleIn.rctx.theme[value.name]
    [] value.kind = "token" /\ value # Encoding /\ value.name \notin DOMAIN styleIn.rctx.theme ->
         "$" \o value.name
    [] value.kind = "literal" -> value.name

Swapped(b) == <<b[2], b[1]>>

BandRows == 1..bandIn.rctx.data.length

BandScale == bandIn.rctx.proxy.scale[bandIn.axis]

BandHas(c) == c \in DOMAIN bandIn.rctx.data.columns

\* The interval of row i from the single column, and from the pair of columns.
FromColumn(i) == ScaleApplyBand(BandScale, bandIn.rctx.data.columns[bandIn.axis][i])

FromPair(i) ==
  <<ScaleApply(BandScale, bandIn.rctx.data.columns[Axis1(bandIn.axis)][i]),
    ScaleApply(BandScale, bandIn.rctx.data.columns[Axis2(bandIn.axis)][i])>>

\* The raw interval after the dimension, which is the raw interval when there is none.
Dimensioned(v) ==
  IF bandIn.dimension.kind \in {"number", "gap", "ratio"}
  THEN DimensionModifier(bandIn.dimension, v) ELSE v

\* C17: resolveBand takes each row's interval from the column at axis when the
\* column and the scale of the axis exist, whether or not the columns axis1
\* and axis2 exist; otherwise from the columns axis1 and axis2 when both and
\* the scale exist; otherwise it is the constant [0, plotWidth] for x and
\* [0, plotHeight] for y.  In the first two cases a dimension is applied to
\* the raw interval, and without a dimension the raw interval is the result.
C17_BandSourcePriority ==
  bandPc = "done" =>
    /\ DOMAIN bandOut = BandRows
    /\ \A i \in BandRows :
         bandOut[i] =
           CASE BandHas(bandIn.axis) /\ BandScale # "none" -> Dimensioned(FromColumn(i))
             [] ~ (BandHas(bandIn.axis) /\ BandScale # "none")
                /\ BandHas(Axis1(bandIn.axis)) /\ BandHas(Axis2(bandIn.axis))
                /\ BandScale # "none" -> Dimensioned(FromPair(i))
             [] OTHER -> <<F(0), F(IF bandIn.axis = "x" THEN bandIn.rctx.proxy.plotWidth
                                                        ELSE bandIn.rctx.proxy.plotHeight)>>
    /\ bandIn.dimension.kind = "none" /\ BandScale # "none" =>
         \A i \in BandRows :
           /\ BandHas(bandIn.axis) => bandOut[i] = FromColumn(i)
           /\ ~ BandHas(bandIn.axis) /\ BandHas(Axis1(bandIn.axis)) /\ BandHas(Axis2(bandIn.axis)) =>
                bandOut[i] = FromPair(i)

\* The three columns and the scale at once, with a gap: the single column wins.
C17_Witness ==
  /\ bandPc = "done" /\ bandIn.rctx.data.length = 1 /\ BandScale # "none"
  /\ BandHas(bandIn.axis) /\ BandHas(Axis1(bandIn.axis)) /\ BandHas(Axis2(bandIn.axis))
  /\ bandIn.dimension.kind = "gap"
  /\ bandOut[1] = Dimensioned(FromColumn(1))
  /\ bandOut[1] # FromColumn(1)
  /\ bandOut[1] # Dimensioned(FromPair(1))

\* The raw interval of row i, when the band comes from columns through the scale.
RawInterval(i) == IF BandHas(bandIn.axis) THEN FromColumn(i) ELSE FromPair(i)

\* A gap or ratio dimension on a band that comes from columns through the scale.
ShrinksBand ==
  /\ bandPc = "done" /\ bandIn.dimension.kind \in {"gap", "ratio"} /\ BandScale # "none"
  /\ BandHas(bandIn.axis) \/ (BandHas(Axis1(bandIn.axis)) /\ BandHas(Axis2(bandIn.axis)))

Directed(i) ==
  isFinite(RawInterval(i)[1]) /\ isFinite(RawInterval(i)[2]) /\ RawInterval(i)[1] # RawInterval(i)[2]

SameDirection(v, w) == (NLt(v[1], v[2]) /\ NLt(w[1], w[2])) \/ (NLt(v[2], v[1]) /\ NLt(w[2], w[1]))

\* C19 as stated: the {gap, clampToRatio} and the {ratio} modifiers keep the
\* direction of every raw interval, for every value of their parameters.
C19_DirectionAlwaysPreserved ==
  ShrinksBand =>
    \A i \in BandRows : Directed(i) => SameDirection(RawInterval(i), bandOut[i])

\* C19, amended: the {ratio} modifier keeps the direction of the interval
\* when ratio > 0, collapses it to one point when ratio = 0 and reverses it
\* when ratio < 0; the {gap, clampToRatio} modifier keeps the direction when
\* clampToRatio < 1 (or is absent) or gap < |v1 - v2|, and collapses the
\* interval to one point when clampToRatio = 1 and gap >= |v1 - v2|.
C19_DirectionPreservedWithinRange ==
  ShrinksBand =>
    \A i \in BandRows :
      Directed(i) =>
        LET raw == RawInterval(i)
            out == bandOut[i]
            width == NAbs(NSub(raw[1], raw[2])).v
            d == bandIn.dimension
        IN  /\ d.kind = "ratio" /\ d.b > 0 => SameDirection(raw, out)
            /\ d.kind = "ratio" /\ d.b = 0 => out[1] = out[2]
            /\ d.kind = "ratio" /\ d.b < 0 => SameDirection(raw, Swapped(out))
            /\ d.kind = "gap" /\ (d.b < 2 \/ d.a < width) => SameDirection(raw, out)
            /\ d.kind = "gap" /\ d.b = 2 /\ d.a >= width => out[1] = out[2]

\* A descending interval that a ratio of one half keeps descending, and is narrowed.
C19_Witness ==
  /\ ShrinksBand /\ bandIn.rctx.data.length = 1 /\ Directed(1)
  /\ bandIn.dimension = [kind |-> "ratio", a |-> 0, b |-> 1]
  /\ NLt(RawInterval(1)[2], RawInterval(1)[1]) /\ NLt(bandOut[1][2], bandOut[1][1])
  /\ bandOut[1] # RawInterval(1)

(***************************************************************************)
(* Properties of the order of lineData.                                    *)
(***************************************************************************)
StrictlyAscending(q) == \A a, b \in DOMAIN q : a < b => q[a] < q[b]

\* The rows {x: 1, cat: a}, {x: 2, cat: a}, {x: 1, cat: b}.
IsOrderExample(data) ==
  /\ data.length = 3 /\ DOMAIN data.columns = {"x", "color"}
  /\ data.columns["x"] = <<F(1), F(2), F(1)>>
  /\ data.columns["color"] = <<Str(1), Str(1), Str(2)>>

\* C16: lineData returns its groups in first-seen order, that is ordered by
\* the smallest row index of each group, and the row indices of a group in
\* ascending order; for the rows {x: 1, cat: a}, {x: 2, cat: a}, {x: 1, cat: b}
\* it returns [0, 1] and then [2].
C16_GroupsInFirstSeenOrder ==
  linePc = "path" =>
    /\ \A g \in DOMAIN lineGroups :
         /\ lineGroups[g] # <<>>
         /\ StrictlyAscending(lineGroups[g])
         /\ \A i \in Range(lineGroups[g]) : lineGroups[g][1] <= i
    /\ StrictlyAscending([g \in DOMAIN lineGroups |-> lineGroups[g][1]])
    /\ IsOrderExample(lineIn.rctx.data) => lineGroups = <<(<<0, 1>>), (<<2>>)>>

\* The rows of the example, grouped.
C16_Witness ==
  /\ linePc = "path"
  /\ IsOrderExample(lineIn.rctx.data)
  /\ lineGroups = <<(<<0, 1>>), (<<2>>)>>

\* A colour value that is a literal or a token the theme defines.
IsConstantColor(value) ==
  \/ value.kind = "literal"
  \/ value.kind = "token" /\ value # Encoding /\ value.name \in DOMAIN styleIn.rctx.theme

\* The calls of one layer on the context: prepare, then draw for each row.
StyleCalls == styleOut.prepare \o Flatten(styleOut.draws)

CountOf(calls, op) == Cardinality({k \in DOMAIN calls : calls[k].op = op})

\* The drawing state of a fresh context when call k of calls is made.
StateAt(calls, k) == ApplyCalls(EmptySurface, SubSeq(calls, 1, k - 1), 0, 0).state

\* C15: when fillColor (strokeColor) is a literal or a token of the theme,
\* prepare assigns the resolved colour to the context's fill (stroke) style
\* exactly once, no draw(ctx, index) assigns it, and at every fill (stroke)
\* of the layer the context's fill (stroke) style is that colour.
C15_ConstantColorSetOnce ==
  stylePc = "done" =>
    /\ IsConstantColor(styleIn.style.fillColor) =>
         /\ CountOf(styleOut.prepare, "fillStyle") = 1
         /\ LastSet(styleOut.prepare, "fillStyle") = TokenColor(styleIn.style.fillColor, 0)
         /\ \A i \in StyleRows : CountOf(styleOut.draws[i], "fillStyle") = 0
         /\ \A k \in DOMAIN StyleCalls :
              StyleCalls[k].op = "fill" =>
                StateAt(StyleCalls, k).fillStyle = TokenColor(styleIn.style.fillColor, 0)
    /\ IsConstantColor(styleIn.style.strokeColor) =>
         /\ CountOf(styleOut.prepare, "strokeStyle") = 1
         /\ LastSet(styleOut.prepare, "strokeStyle") = TokenColor(styleIn.style.strokeColor, 0)
         /\ \A i \in StyleRows : CountOf(styleOut.draws[i], "strokeStyle") = 0
         /\ \A k \in DOMAIN StyleCalls :
              StyleCalls[k].op = "stroke" =>
                StateAt(StyleCalls, k).strokeStyle = TokenColor(styleIn.style.strokeColor, 0)

\* A theme token as the fill of two rows whose encoded colours differ, both filled.
C15_Witness ==
  /\ stylePc = "done" /\ styleIn.rctx.data.length = 2
  /\ styleIn.style.fillColor = Token("ruleColor") /\ styleIn.style.strokeColor = Literal("#f00")
  /\ ColorMapped /\ styleOut.color[1] # styleOut.color[2]
  /\ CountOf(styleOut.draws[1], "fill") = 1 /\ CountOf(styleOut.draws[2], "fill") = 1
  /\ CountOf(styleOut.draws[2], "stroke") = 1
  /\ StateAt(StyleCalls, Len(StyleCalls)).fillStyle = "#888"
  /\ StateAt(StyleCalls, Len(StyleCalls)).strokeStyle = "#f00"

\* The places in calls where op is called.
CallsOf(calls, op) == {k \in DOMAIN calls : calls[k].op = op}

\* C27: in every draw(ctx, index), when both a fill and a stroke are
\* performed the fill comes before the stroke unless paintOrder is exactly
\* "stroke fill", and then the stroke comes before the fill; each of the two
\* is performed at most once in a call.
C27_PaintOrder ==
  stylePc = "done" =>
    \A i \in StyleRows :
      LET fills == CallsOf(styleOut.draws[i], "fill")
          strokes == CallsOf(styleOut.draws[i], "stroke")
      IN  /\ Cardinality(fills) <= 1 /\ Cardinality(strokes) <= 1
          /\ \A f \in fills, k \in strokes :
               IF styleIn.style.paintOrder = "stroke fill" THEN k < f ELSE f < k

\* A row stroked and then filled.
C27_Witness ==
  /\ stylePc = "done" /\ styleIn.style.paintOrder = "stroke fill"
  /\ \E i \in StyleRows :
       \E f \in CallsOf(styleOut.draws[i], "fill"), k \in CallsOf(styleOut.draws[i], "stroke") :
         k < f

\* The alpha of a paint: opacity * fillOpacity or opacity * strokeOpacity, in
\* ten-thousandths, an absent factor counting as 1.
PaintAlpha(factor) == OrElse(styleIn.style.opacity, 100) * OrElse(factor, 100)

\* C28: in every draw(ctx, index) a fill is performed if and only if
\* fillColor is present and opacity * fillOpacity > 0, and at the fill the
\* context's global alpha equals opacity * fillOpacity; the same for the
\* stroke with strokeColor and opacity * strokeOpacity, whatever alpha an
\* earlier paint or an earlier row left on the context.
C28_PaintAlpha ==
  stylePc = "done" =>
    /\ \A i \in StyleRows :
         /\ CallsOf(styleOut.draws[i], "fill") # {}
              <=> styleIn.style.fillColor.kind # "absent"
                  /\ PaintAlpha(styleIn.style.fillOpacity) > 0
         /\ CallsOf(styleOut.draws[i], "stroke") # {}
              <=> styleIn.style.strokeColor.kind # "absent"
                  /\ PaintAlpha(styleIn.style.strokeOpacity) > 0
    /\ \A k \in CallsOf(StyleCalls, "fill") :
         StateAt(StyleCalls, k).globalAlpha = F(PaintAlpha(styleIn.style.fillOpacity))
    /\ \A k \in CallsOf(StyleCalls, "stroke") :
         StateAt(StyleCalls, k).globalAlpha = F(PaintAlpha(styleIn.style.strokeOpacity))

\* fillOpacity 2 and strokeOpacity 0.5 on two rows: the context ignores the
\* alpha 2, so the first row is filled with the alpha 1 that prepare left and
\* the second with the alpha 0.5 that the first row's stroke left.
C28_Witness ==
  /\ stylePc = "done" /\ styleIn.rctx.data.length = 2
  /\ styleIn.style.opacity = -1 /\ styleIn.style.fillOpacity = 200
  /\ styleIn.style.strokeOpacity = 50 /\ styleIn.style.paintOrder = "absent"
  /\ styleIn.style.fillColor = Literal("#f00") /\ styleIn.style.strokeColor = Literal("#f00")
  /\ [k \in 1..2 |-> StateAt(StyleCalls, Ascending(CallsOf(StyleCalls, "fill"))[k]).globalAlpha]
       = <<F(10000), F(5000)>>

(***************************************************************************)
(* Properties of sortItems.                                                *)
(***************************************************************************)
SortField == IF sortIn.sortBy = "undefined" THEN "total" ELSE sortIn.sortBy

SortSplit ==
  IF sortIn.firstSpecialIndex = -1 \/ sortIn.firstSpecialIndex > Len(sortIn.items)
  THEN Len(sortIn.items) ELSE sortIn.firstSpecialIndex

\* C23: sortItems returns the items before firstSpecialIndex (all of them
\* when it is -1) ordered by the chosen field (total when sortBy is
\* undefined) in the chosen order (descending when sortOrder is undefined),
\* and then the items from firstSpecialIndex on in their original order,
\* whatever their values; the array it was given is not modified.
C23_SortsRegularKeepsSpecial ==
  sortPc = "done" =>
    /\ Len(sortOut) = Len(sortIn.items)
    /\ {sortOut[j] : j \in 1..SortSplit} = {sortIn.items[j] : j \in 1..SortSplit}
    /\ \A a, b \in 1..SortSplit :
         a < b => IF sortIn.sortOrder = "asc"
                  THEN sortOut[a][SortField] <= sortOut[b][SortField]
                  ELSE sortOut[a][SortField] >= sortOut[b][SortField]
    /\ \A j \in (SortSplit + 1)..Len(sortIn.items) : sortOut[j] = sortIn.items[j]
    /\ sortArray = sortIn.items

\* Three items, the last special and with a total as large as any, sorted by default.
C23_Witness ==
  /\ sortPc = "done" /\ Len(sortIn.items) = 3 /\ sortIn.firstSpecialIndex = 2
  /\ sortIn.sortBy = "undefined" /\ sortIn.sortOrder = "undefined"
  /\ sortIn.items[1].total = 1 /\ sortIn.items[2].total = 2 /\ sortIn.items[3].total = 2
  /\ sortOut = <<sortIn.items[2], sortIn.items[1], sortIn.items[3]>>

(***************************************************************************)
(* Properties of the base64 codec.                                         *)
(***************************************************************************)
\* C24: base64Decode(base64Encode(b)) = b for every byte array b: the empty
\* one, every length modulo 3, for which the encoder removes zero, two or
\* one padding characters, and every byte value from 0 to 255.
C24_Base64RoundTrip ==
  /\ b64Pc = "done" => ~b64Decoded.threw /\ b64Decoded.value = b64Bytes
  /\ b64Pc \in {"decode", "done"} =>
       /\ \A j \in DOMAIN b64Text : b64Text[j] \notin {"=", "+", "/"}
       /\ Len(b64Text) = 4 * (Len(b64Bytes) \div 3)
                         + (CASE Len(b64Bytes) % 3 = 0 -> 0
                              [] Len(b64Bytes) % 3 = 1 -> 2
                              [] Len(b64Bytes) % 3 = 2 -> 3)

\* Four bytes that encode to both characters the URL-safe alphabet replaces.
C24_Witness ==
  /\ b64Pc = "done" /\ b64Bytes = <<251, 255, 0, 255>>
  /\ b64Text = <<"-", "_", "8", "A", "_", "w">>
  /\ b64Decoded = [threw |-> FALSE, value |-> b64Bytes]

(***************************************************************************)
(* Properties of latestAsync.                                              *)
(***************************************************************************)
\* C25: onResult is called only with the result of the invocation started
\* most recently, whatever the order in which the promises settle: the
\* result of a promise that is stale when its callback runs is never passed
\* on.  A rejected promise never calls onResult and raises no error: its
\* chain ends fulfilled, the reason logged.
C25_OnlyLatestResult ==
  /\ [][onResultCalls' # onResultCalls =>
          /\ latestId \in DOMAIN promises /\ latestId' = latestId
          /\ promises[latestId].state = "fulfilled"
          /\ onResultCalls' = Append(onResultCalls, [id |-> latestId,
                                                     result |-> promises[latestId].value])]_vars
  /\ [](\A id \in DOMAIN promises :
          /\ promises[id].chain # "rejected"
          /\ promises[id].state = "rejected" =>
               \A j \in DOMAIN onResultCalls : onResultCalls[j].id # id)

\* The second invocation settles first and is passed on; the first one
\* fulfils later and is dropped; the third one rejects.
C25_Witness ==
  /\ latestId = 3
  /\ \A id \in 1..3 : promises[id].reacted
  /\ promises[1].state = "fulfilled" /\ promises[2].state = "fulfilled"
  /\ promises[3].state = "rejected"
  /\ onResultCalls = <<[id |-> 2, result |-> "r2"]>>
  /\ consoleErrors = <<"error">>

(***************************************************************************)
(* Properties of ReconnectingWebSocket.                                    *)
(***************************************************************************)
\* C30: after close() is called no new WebSocket is ever created: a pending
\* reconnect timer is cancelled, a close event of the socket that arrives
\* later schedules no reconnect, and connect() opens no socket, in every
\* interleaving of close() with open, close and timer events.
C30_NoSocketAfterClose ==
  rws.closeCalled =>
    /\ Len(rws.sockets) = rws.socketsAtClose
    /\ rws.reconnectTimeoutId = "null"

\* close() called by the handler of onStatus("connecting") in the callback
\* of the reconnect timer: connect() goes on to create the second socket.
C30_Witness ==
  /\ rws.closeCalled /\ rws.socketsAtClose = 1 /\ Len(rws.sockets) = 2
  /\ rws.sockets = <<"CLOSED", "CONNECTING">> /\ rws.ws = 2
  /\ rws.status = <<"connecting", "connecting", "closed">>

(***************************************************************************)
(* Properties of the rectangles.                                           *)
(***************************************************************************)
LowerEnd(b) == IF b[1].v <= b[2].v THEN b[1].v ELSE b[2].v

Extent(b) == IF b[1].v <= b[2].v THEN b[2].v - b[1].v ELSE b[1].v - b[2].v

\* The rect of the finite bands xb and yb: origin at the lower ends, size the extents.
NormalisedRect(xb, yb) == <<F(LowerEnd(xb)), F(LowerEnd(yb)), F(Extent(xb)), F(Extent(yb))>>

\* C13: every rect either renderer emits has its origin at (min(x0, x1),
\* min(y0, y1)), width |x1 - x0| and height |y1 - y0| of the row's bands, so
\* its width and height are never negative, and the row gives the same rect
\* when the two ends of its bands are swapped.
C13_RectsAreNormalised ==
  EffectsDone /\ lastPass = "drawn" /\ props.layer.primitive = "rect" =>
    LET x == resolveBand(Rctx(props), "x", props.layer.xDimension)
        y == resolveBand(Rctx(props), "y", props.layer.yDimension)
        drawn == CanvasGeometry(lastCalls)
    IN  /\ \A j \in DOMAIN container :
             LET e == container[j]
             IN  /\ e.tag = "rect"
                 /\ e.n = NormalisedRect(at(x, e.row), at(y, e.row))
                 /\ e.n[3].k = "fin" /\ e.n[3].v >= 0
                 /\ e.n[4].k = "fin" /\ e.n[4].v >= 0
                 /\ svgRectRow(e.row, Swapped(at(x, e.row)), Swapped(at(y, e.row)), e.attrs) = <<e>>
        /\ \A q \in DOMAIN drawn :
             LET r == drawn[q]
             IN  /\ r.kind = "rect"
                 /\ r.n = NormalisedRect(at(x, r.row), at(y, r.row))
                 /\ r.n[3].k = "fin" /\ r.n[3].v >= 0
                 /\ r.n[4].k = "fin" /\ r.n[4].v >= 0
                 /\ canvasRectRow(Rctx(props), props.layer, r.row,
                                  Swapped(at(x, r.row)), Swapped(at(y, r.row)))[2].n = r.n

\* A rect whose x band ascends and whose y band descends, in both renderers.
C13_Witness ==
  /\ EffectsDone /\ lastPass = "drawn" /\ props.layer.primitive = "rect"
  /\ \E j \in DOMAIN container :
       LET xb == at(resolveBand(Rctx(props), "x", props.layer.xDimension), container[j].row)
           yb == at(resolveBand(Rctx(props), "y", props.layer.yDimension), container[j].row)
       IN  /\ xb[1].v < xb[2].v /\ yb[1].v > yb[2].v
           /\ container[j].n[2] = yb[2] /\ container[j].n[4].v > 0
           /\ \E q \in DOMAIN CanvasGeometry(lastCalls) :
                CanvasGeometry(lastCalls)[q].n = container[j].n

(***************************************************************************)
(* Properties of the paths of line and area layers.                        *)
(***************************************************************************)
\* The paths the two renderers have made, in order.
SvgPaths == [j \in DOMAIN container |-> container[j].path]

CanvasPaths ==
  LET calls == Ascending({j \in DOMAIN lastCalls : lastCalls[j].op = "d3path"})
  IN  [q \in DOMAIN calls |-> lastCalls[calls[q]].path]

PathPoints(paths) == UNION {Range(paths[j].points) : j \in DOMAIN paths}

\* The band of the rows of an area: on y when vertical, on x when horizontal.
AreaBand ==
  resolveBand(Rctx(props), IF Orientation(props.layer) = "vertical" THEN "y" ELSE "x", NoDimension)

AreaRendered == EffectsDone /\ lastPass = "drawn" /\ props.layer.primitive = "area"

(***************************************************************************)
(* Properties of the points.                                               *)
(***************************************************************************)
\* The resolved size of row i of the layer.
SizeOfRow(i) == at(resolveSize(Rctx(props), props.layer.pointSize), i)

\* r, in hundredths, is the square root of size / pi to a hundredth, pi being
\* 355 / 113, and pi * r^2 is within one part in a hundred of size.
IsAreaRadius(r, size) ==
  /\ r.k = "fin" /\ r.v >= 0
  /\ r.v * r.v * 355 <= size.v * 10000 * 113
  /\ size.v * 10000 * 113 < (r.v + 1) * (r.v + 1) * 355
  /\ size.v * 1130000 - r.v * r.v * 355 <= size.v * 11300

\* C20: the radius of every point either renderer emits is sqrt(size / pi) of
\* the row's resolved size, so that pi * radius^2 is the size when size > 0;
\* sizes 100 and 400 give radii of 5.64 and 11.28.
C20_RadiusEncodesArea ==
  EffectsDone /\ lastPass = "drawn" /\ props.layer.primitive = "point" =>
    /\ \A j \in DOMAIN container :
         LET e == container[j]
         IN  /\ e.tag = "circle"
             /\ SizeOfRow(e.row).v > 0 => IsAreaRadius(e.n[3], SizeOfRow(e.row))
             /\ SizeOfRow(e.row) = F(100) => e.n[3] = F(564)
             /\ SizeOfRow(e.row) = F(400) => e.n[3] = F(1128)
    /\ \A q \in DOMAIN CanvasGeometry(lastCalls) :
         LET c == CanvasGeometry(lastCalls)[q]
         IN  /\ c.kind = "circle"
             /\ SizeOfRow(c.row).v > 0 => IsAreaRadius(c.n[3], SizeOfRow(c.row))
             /\ SizeOfRow(c.row) = F(100) => c.n[3] = F(564)
             /\ SizeOfRow(c.row) = F(400) => c.n[3] = F(1128)

\* Two points of sizes 100 and 400, in both renderers.
C20_Witness ==
  /\ EffectsDone /\ lastPass = "drawn" /\ props.layer.primitive = "point"
  /\ Len(container) = 2
  /\ SizeOfRow(0) = F(100) /\ SizeOfRow(1) = F(400)
  /\ container[1].n[3] = F(564) /\ container[2].n[3] = F(1128)
  /\ Len(CanvasGeometry(lastCalls)) = 2
  /\ CanvasGeometry(lastCalls)[1].n[3] = F(564) /\ CanvasGeometry(lastCalls)[2].n[3] = F(1128)

PathsRendered ==
  EffectsDone /\ lastPass = "drawn" /\ props.layer.primitive \in {"line", "area"}

\* Whether row i has every coordinate its path needs finite.
PathRowFinite(i) ==
  IF props.layer.primitive = "line"
  THEN isFinite(at(resolvePoint(Rctx(props), "x"), i)) /\ isFinite(at(resolvePoint(Rctx(props), "y"), i))
  ELSE /\ isFinite(at(resolvePoint(Rctx(props),
                                   IF Orientation(props.layer) = "vertical" THEN "x" ELSE "y"), i))
       /\ isFinite(at(AreaBand, i)[1]) /\ isFinite(at(AreaBand, i)[2])

\* The groups that have a row to draw, in the order of groups.
RECURSIVE WithFiniteRow(_)
WithFiniteRow(groups) ==
  IF groups = <<>> THEN <<>>
  ELSE (IF \E i \in Range(Head(groups)) : PathRowFinite(i) THEN <<Head(groups)>> ELSE <<>>)
       \o WithFiniteRow(Tail(groups))

\* paths are the paths of groups, one each and in order, each from rows of its group.
OnePathPerGroup(paths, groups) ==
  /\ Len(paths) = Len(groups)
  /\ \A g \in DOMAIN groups :
       /\ paths[g].points # <<>>
       /\ {pt.i : pt \in Range(paths[g].points)} \subseteq Range(groups[g])

CanvasPathsWithPoints == SelectSeq(CanvasPaths, LAMBDA d : d.points # <<>>)

\* C18 as stated: for a line or area layer each renderer produces exactly one
\* rendered path for each group of lineData, in the order of the groups,
\* each from rows of its own group only.
C18_OnePathPerGroup ==
  PathsRendered =>
    /\ OnePathPerGroup(SvgPaths, lineData(props.layer.data))
    /\ OnePathPerGroup(CanvasPathsWithPoints, lineData(props.layer.data))

\* C18, amended: each renderer produces exactly one rendered path for each
\* group of lineData that has a row whose coordinates are all finite, in the
\* order of the groups, each from rows of its own group only, and none for a
\* group without such a row: the retained-mode renderer makes no element for
\* it, and the immediate-mode renderer begins a path and paints it for every
\* group, in order, but puts nothing on the path of such a group.
C18_OnePathPerGroupWithFiniteRow ==
  PathsRendered =>
    LET groups == lineData(props.layer.data)
    IN  /\ OnePathPerGroup(SvgPaths, WithFiniteRow(groups))
        /\ \A j \in DOMAIN container :
             container[j].tag = "path" /\ container[j].row = WithFiniteRow(groups)[j][1]
        /\ OnePathPerGroup(CanvasPathsWithPoints, WithFiniteRow(groups))
        /\ Len(CanvasPaths) = Len(groups)
        /\ RowsDrawn(lastCalls) = [g \in DOMAIN groups |-> groups[g][1]]
        /\ \A g \in DOMAIN groups :
             /\ {pt.i : pt \in Range(CanvasPaths[g].points)} \subseteq Range(groups[g])
             /\ CanvasPaths[g].points = <<>> <=> ~ \E i \in Range(groups[g]) : PathRowFinite(i)

\* Two groups, the first without a finite row: one element, of the second group.
C18_Witness ==
  /\ PathsRendered
  /\ Len(lineData(props.layer.data)) = 2
  /\ WithFiniteRow(lineData(props.layer.data)) = <<(<<1>>)>>
  /\ Len(container) = 1 /\ container[1].row = 1
  /\ Len(CanvasPaths) = 2 /\ Len(CanvasPathsWithPoints) = 1

\* C14 as stated: an area row is rendered from the smaller of its two band
\* endpoints with the distance between them as its height, which is never
\* negative: endpoints 10 and 2 give origin 2 and height 8.
C14_AreaRowsHaveOriginAndHeight ==
  AreaRendered =>
    \A pt \in PathPoints(SvgPaths) \cup PathPoints(CanvasPaths) :
      /\ pt.b0 = F(LowerEnd(at(AreaBand, pt.i)))
      /\ NSub(pt.b1, pt.b0) = F(Extent(at(AreaBand, pt.i)))

\* C14, amended: an area row enters its group's path with its two band
\* endpoints as they are and in their order, the first as the baseline and the
\* second as the top line; nothing orders them, so endpoints 10 and 2 give a
\* baseline at 10 and a top line at 2, and swapping them swaps the two.
C14_AreaKeepsEndpointOrder ==
  AreaRendered =>
    \A pt \in PathPoints(SvgPaths) \cup PathPoints(CanvasPaths) :
      /\ pt.b0 = at(AreaBand, pt.i)[1]
      /\ pt.b1 = at(AreaBand, pt.i)[2]

\* Band endpoints 10 px and 2 px (40 and 8 quarter pixels) from the columns y1, y2.
C14_Witness ==
  /\ AreaRendered
  /\ HasColumn(props.layer.data, "y1") /\ HasColumn(props.layer.data, "y2")
  /\ \E pt \in PathPoints(SvgPaths) :
       /\ at(AreaBand, pt.i) = <<F(40), F(8)>>
       /\ pt.b0 = F(40) /\ pt.b1 = F(8)
       /\ pt \in PathPoints(CanvasPaths)

====
